---- MODULE Spec2Model ----
(***************************************************************************)
(* A model of the page engine of Cache::FastMmap (mmap_cache.c): the page  *)
(* layout, the open-addressing slot table of a page, the fcntl page lock   *)
(* with header write-back, the two-phase expunge and the test_file open.   *)
(*                                                                         *)
(* A page is modelled by its header words, its slot table (slot index ->   *)
(* data offset) and its heap (data offset -> record).  A handle is the     *)
(* struct mmap_cache of one process.  32-bit words that cannot be held in  *)
(* a TLC integer (the magic, the running hash) are pairs of 16-bit halves. *)
(***************************************************************************)
EXTENDS Integers, Sequences, FiniteSets, TLC

(***************************************************************************)
(* Program constants                                                       *)
(***************************************************************************)
P_HEADERSIZE == 32
RecHeaderLen == 24
MinSlots == 89
LastAccessMin == 1000000000
LastAccessMax == 1200000000
Magic == <<37623, 58289>>
NoMagic == <<0, 0>>

(***************************************************************************)
(* Configuration of the modelled caches (mmc_set_param)                    *)
(***************************************************************************)
NumPages == 2
PageSize == 1024
FullPageSize == 4096
ThreshPageSize == 1028
TightPageSize == 2900
DensePageSize == 1200
StartSlots == 89

(***************************************************************************)
(* Bounds of the model                                                     *)
(***************************************************************************)
MaxOps == 3
MaxFullOps == 2
MaxTightOps == 1
MaxSharedOps == 3
MaxMapOps == 6
MaxOpenOps == 2
MaxTicks == 2
MaxSort == 6
BigLen == 300

Procs == {1, 2}
NoProc == 0
Pages == 0 .. (NumPages - 1)
NoPage == -1
NullSlot == -1

KeyA == <<1>>
KeyB == <<179>>
KeyC == <<3>>
KeyD == <<2>>
Keys == {KeyA, KeyB, KeyC, KeyD}

ValSmall == <<7>>
ValBig == [i \in 1 .. BigLen |-> 5]
NoVal == <<255, 255>>
\* the (value, flags) pairs a caller writes
WriteInputs == {<<ValSmall, 7>>, <<ValBig, 0>>}
ExpireSettings == {0, 1}
\* the <<mode, len>> a caller passes to mmc_calc_expunge
ExpungeArgs == {<<0, 0>>, <<1, 0>>, <<2, Len(KeyA) + Len(ValSmall)>>,
                <<2, Len(KeyA) + Len(ValBig)>>}
Times == (LastAccessMax - MaxTicks) .. LastAccessMax

(***************************************************************************)
(* Record layout helpers                                                   *)
(***************************************************************************)
ROUNDLEN(l) == l + 3 - ((l - 1) % 4)

KV_SlotLen(k, v) == RecHeaderLen + k + v

S_SlotLen(rec) == KV_SlotLen(Len(rec.key), Len(rec.val))

RecLen(rec) == ROUNDLEN(S_SlotLen(rec))

\* what a read through a data offset that holds no record yields
BadRec == [last_access |-> 0, expire_time |-> 0, slot_hash |-> 0, flags |-> 0,
           key |-> <<>>, val |-> <<>>]

S_Ptr(pg, off) == IF off \in DOMAIN pg.heap THEN pg.heap[off] ELSE BadRec

EmptyHeap == [o \in {} |-> BadRec]

\* storing a record at off: the bytes of any record it overlaps are lost
HeapStore(heap, off, rec) ==
  LET end == off + RecLen(rec)
      lost == {o \in DOMAIN heap : o # off /\ o + RecLen(heap[o]) > off /\ o < end}
  IN IF lost = {} THEN (off :> rec) @@ heap
     ELSE (off :> rec) @@ [o \in (DOMAIN heap) \ lost |-> heap[o]]

(***************************************************************************)
(* mmc_hash: h = (h << 4) + (h >> 28) + byte on 32 bits, as <<hi, lo>>     *)
(***************************************************************************)
HashStep(h, b) ==
  LET lo16 == h[2] * 16
      lo1 == lo16 % 65536
      hi1 == (h[1] * 16 + (lo16 \div 65536)) % 65536
      lo2 == lo1 + (h[1] \div 4096) + b
  IN <<(hi1 + (lo2 \div 65536)) % 65536, lo2 % 65536>>

RECURSIVE HashBytes(_, _, _)
HashBytes(h, key, i) ==
  IF i > Len(key) THEN h ELSE HashBytes(HashStep(h, key[i]), key, i + 1)

mmc_hash(key) ==
  LET h == HashBytes(Magic, key, 1)
      r == h[1] % NumPages
  IN [hash_page |-> (r * 65536 + h[2]) % NumPages,
      hash_slot |-> (h[1] \div NumPages) * 65536 + ((r * 65536 + h[2]) \div NumPages)]

KeysOf(page) == {k \in Keys : mmc_hash(k).hash_page = page}

(***************************************************************************)
(* Page initialisation                                                     *)
(***************************************************************************)
\* the zero-filled page of a newly created file
ZeroPage ==
  [magic |-> NoMagic, num_slots |-> 0, free_slots |-> 0, old_slots |-> 0,
   free_data |-> 0, free_bytes |-> 0, slots |-> [i \in {} |-> 0], heap |-> EmptyHeap]

_mmc_init_page(c) ==
  [magic |-> Magic,
   num_slots |-> c.start_slots,
   free_slots |-> c.start_slots,
   old_slots |-> 0,
   free_data |-> P_HEADERSIZE + c.start_slots * 4,
   free_bytes |-> c.c_page_size - (P_HEADERSIZE + c.start_slots * 4),
   slots |-> [i \in 0 .. (c.start_slots - 1) |-> 0],
   heap |-> EmptyHeap]

mmc_new(page_size, expire, test, changed) ==
  [p_cur |-> NoPage, p_base |-> NoPage,
   p_num_slots |-> 0, p_free_slots |-> 0, p_old_slots |-> 0,
   p_free_data |-> 0, p_free_bytes |-> 0, p_changed |-> changed,
   c_page_size |-> page_size, start_slots |-> StartSlots,
   expire_time |-> expire, test_file |-> test]

\* the parameters of mmc_set_param that the model keeps, by their field
mmc_set_param(c, param, val) ==
  CASE param = "test_file" -> [c EXCEPT !.test_file = val]
    [] param = "page_size" -> [c EXCEPT !.c_page_size = val]
    [] param = "expire_time" -> [c EXCEPT !.expire_time = val]
    [] param = "start_slots" -> [c EXCEPT !.start_slots = val]
    [] OTHER -> c

(***************************************************************************)
(* Slot engine                                                             *)
(***************************************************************************)
SlotAt(pg, i) == IF i \in DOMAIN pg.slots THEN pg.slots[i] ELSE 0

\* the k-th slot the probe loop looks at
ProbeSlot(c, hash_slot, k) == ((hash_slot % c.p_num_slots) + k) % c.p_num_slots

\* the loop returns at slot i: an empty slot, a deleted one when writing, or the key
FindStops(pg, i, key, mode) ==
  LET data_offset == SlotAt(pg, i)
  IN \/ data_offset = 0
     \/ data_offset = 1 /\ mode = 1
     \/ data_offset > 1 /\ S_Ptr(pg, data_offset).key = key

\* _mmc_find_slot that returns the slot the probe started at when none stops it
_mmc_find_slot_wrap(c, pg, hash_slot, key, mode) ==
  LET stops(k) == FindStops(pg, ProbeSlot(c, hash_slot, k), key, mode)
      tries == 0 .. (c.p_num_slots - 1)
  IN IF \E k \in tries : stops(k)
     THEN ProbeSlot(c, hash_slot,
                    CHOOSE k \in tries : stops(k) /\ \A j \in 0 .. (k - 1) : ~stops(j))
     ELSE ProbeSlot(c, hash_slot, 0)

\* linear probe over at most p_num_slots slots; NullSlot when none stops it
_mmc_find_slot(c, pg, hash_slot, key, mode) ==
  LET stops(k) == FindStops(pg, ProbeSlot(c, hash_slot, k), key, mode)
      tries == 0 .. (c.p_num_slots - 1)
  IN IF \E k \in tries : stops(k)
     THEN ProbeSlot(c, hash_slot,
                    CHOOSE k \in tries : stops(k) /\ \A j \in 0 .. (k - 1) : ~stops(j))
     ELSE NullSlot

\* _mmc_delete_slot that forgets free_slots++
_mmc_delete_slot_old_only(c, pg, s) ==
  [c |-> [c EXCEPT !.p_old_slots = @ + 1, !.p_changed = 1],
   pg |-> [pg EXCEPT !.slots[s] = 1]]

_mmc_delete_slot(c, pg, s) ==
  [c |-> [c EXCEPT !.p_free_slots = @ + 1, !.p_old_slots = @ + 1, !.p_changed = 1],
   pg |-> [pg EXCEPT !.slots[s] = 1]]

\* mmc_read with the expiry test of mmc_calc_expunge (now >= expire_time)
mmc_read_ge(c, pg, hash_slot, key, t) ==
  LET s == _mmc_find_slot(c, pg, hash_slot, key, 0) IN
  IF s = NullSlot \/ SlotAt(pg, s) = 0
  THEN [c |-> c, pg |-> pg, ret |-> -1, val |-> NoVal, flags |-> 0]
  ELSE LET off == pg.slots[s]
           rec == S_Ptr(pg, off)
       IN IF rec.expire_time # 0 /\ t >= rec.expire_time
          THEN LET d == _mmc_delete_slot(c, pg, s)
               IN [c |-> d.c, pg |-> d.pg, ret |-> -1, val |-> NoVal, flags |-> 0]
          ELSE [c |-> c,
                pg |-> [pg EXCEPT !.heap = HeapStore(@, off, [rec EXCEPT !.last_access = t])],
                ret |-> 0, val |-> rec.val, flags |-> rec.flags]

mmc_read(c, pg, hash_slot, key, t) ==
  LET s == _mmc_find_slot(c, pg, hash_slot, key, 0) IN
  IF s = NullSlot \/ SlotAt(pg, s) = 0
  THEN [c |-> c, pg |-> pg, ret |-> -1, val |-> NoVal, flags |-> 0]
  ELSE LET off == pg.slots[s]
           rec == S_Ptr(pg, off)
       IN IF rec.expire_time # 0 /\ t > rec.expire_time
          THEN LET d == _mmc_delete_slot(c, pg, s)
               IN [c |-> d.c, pg |-> d.pg, ret |-> -1, val |-> NoVal, flags |-> 0]
          ELSE [c |-> c,
                pg |-> [pg EXCEPT !.heap = HeapStore(@, off, [rec EXCEPT !.last_access = t])],
                ret |-> 0, val |-> rec.val, flags |-> rec.flags]

\* mmc_write that does not advance p_free_data
mmc_write_same_offset(c, pg, hash_slot, key, val, flags, t) ==
  LET s == _mmc_find_slot(c, pg, hash_slot, key, 1)
      kvlen == ROUNDLEN(KV_SlotLen(Len(key), Len(val)))
  IN IF s = NullSlot THEN [c |-> c, pg |-> pg, ret |-> 0]
     ELSE LET d == IF pg.slots[s] > 1 THEN _mmc_delete_slot(c, pg, s)
                   ELSE [c |-> c, pg |-> pg]
          IN IF d.c.p_free_bytes >= kvlen
             THEN LET rec == [last_access |-> t,
                              expire_time |-> IF c.expire_time # 0 THEN t + c.expire_time ELSE 0,
                              slot_hash |-> hash_slot, flags |-> flags,
                              key |-> key, val |-> val]
                      off == d.c.p_free_data
                  IN [c |-> [d.c EXCEPT !.p_free_slots = @ - 1,
                                        !.p_old_slots = IF d.pg.slots[s] = 1 THEN @ - 1 ELSE @,
                                        !.p_free_bytes = @ - kvlen,
                                        !.p_changed = 1],
                      pg |-> [d.pg EXCEPT !.heap = HeapStore(@, off, rec),
                                          !.slots[s] = off],
                      ret |-> 1]
             ELSE [c |-> d.c, pg |-> d.pg, ret |-> 0]

\* mmc_write that tests the free space before it deletes the old record
mmc_write_check_first(c, pg, hash_slot, key, val, flags, t) ==
  LET s == _mmc_find_slot(c, pg, hash_slot, key, 1)
      kvlen == ROUNDLEN(KV_SlotLen(Len(key), Len(val)))
  IN IF s = NullSlot \/ c.p_free_bytes < kvlen THEN [c |-> c, pg |-> pg, ret |-> 0]
     ELSE LET d == IF pg.slots[s] > 1 THEN _mmc_delete_slot(c, pg, s)
                   ELSE [c |-> c, pg |-> pg]
          IN IF d.c.p_free_bytes >= kvlen
             THEN LET rec == [last_access |-> t,
                              expire_time |-> IF c.expire_time # 0 THEN t + c.expire_time ELSE 0,
                              slot_hash |-> hash_slot, flags |-> flags,
                              key |-> key, val |-> val]
                      off == d.c.p_free_data
                  IN [c |-> [d.c EXCEPT !.p_free_slots = @ - 1,
                                        !.p_old_slots = IF d.pg.slots[s] = 1 THEN @ - 1 ELSE @,
                                        !.p_free_bytes = @ - kvlen,
                                        !.p_free_data = @ + kvlen,
                                        !.p_changed = 1],
                      pg |-> [d.pg EXCEPT !.heap = HeapStore(@, off, rec),
                                          !.slots[s] = off],
                      ret |-> 1]
             ELSE [c |-> d.c, pg |-> d.pg, ret |-> 0]

\* mmc_write without the p_old_slots-- of a reused deleted slot
mmc_write_old_kept(c, pg, hash_slot, key, val, flags, t) ==
  LET s == _mmc_find_slot(c, pg, hash_slot, key, 1)
      kvlen == ROUNDLEN(KV_SlotLen(Len(key), Len(val)))
  IN IF s = NullSlot THEN [c |-> c, pg |-> pg, ret |-> 0]
     ELSE LET d == IF pg.slots[s] > 1 THEN _mmc_delete_slot(c, pg, s)
                   ELSE [c |-> c, pg |-> pg]
          IN IF d.c.p_free_bytes >= kvlen
             THEN LET rec == [last_access |-> t,
                              expire_time |-> IF c.expire_time # 0 THEN t + c.expire_time ELSE 0,
                              slot_hash |-> hash_slot, flags |-> flags,
                              key |-> key, val |-> val]
                      off == d.c.p_free_data
                  IN [c |-> [d.c EXCEPT !.p_free_slots = @ - 1,
                                        !.p_old_slots = @,
                                        !.p_free_bytes = @ - kvlen,
                                        !.p_free_data = @ + kvlen,
                                        !.p_changed = 1],
                      pg |-> [d.pg EXCEPT !.heap = HeapStore(@, off, rec),
                                          !.slots[s] = off],
                      ret |-> 1]
             ELSE [c |-> d.c, pg |-> d.pg, ret |-> 0]

mmc_write(c, pg, hash_slot, key, val, flags, t) ==
  LET s == _mmc_find_slot(c, pg, hash_slot, key, 1)
      kvlen == ROUNDLEN(KV_SlotLen(Len(key), Len(val)))
  IN IF s = NullSlot THEN [c |-> c, pg |-> pg, ret |-> 0]
     ELSE LET d == IF pg.slots[s] > 1 THEN _mmc_delete_slot(c, pg, s)
                   ELSE [c |-> c, pg |-> pg]
          IN IF d.c.p_free_bytes >= kvlen
             THEN LET rec == [last_access |-> t,
                              expire_time |-> IF c.expire_time # 0 THEN t + c.expire_time ELSE 0,
                              slot_hash |-> hash_slot, flags |-> flags,
                              key |-> key, val |-> val]
                      off == d.c.p_free_data
                  IN [c |-> [d.c EXCEPT !.p_free_slots = @ - 1,
                                        !.p_old_slots = IF d.pg.slots[s] = 1 THEN @ - 1 ELSE @,
                                        !.p_free_bytes = @ - kvlen,
                                        !.p_free_data = @ + kvlen,
                                        !.p_changed = 1],
                      pg |-> [d.pg EXCEPT !.heap = HeapStore(@, off, rec),
                                          !.slots[s] = off],
                      ret |-> 1]
             ELSE [c |-> d.c, pg |-> d.pg, ret |-> 0]

mmc_delete(c, pg, hash_slot, key) ==
  LET s == _mmc_find_slot(c, pg, hash_slot, key, 2) IN
  IF s = NullSlot \/ SlotAt(pg, s) = 0
  THEN [c |-> c, pg |-> pg, ret |-> 0, flags |-> 0]
  ELSE LET d == _mmc_delete_slot(c, pg, s)
       IN [c |-> d.c, pg |-> d.pg, ret |-> 1, flags |-> S_Ptr(pg, pg.slots[s]).flags]

(***************************************************************************)
(* Page lock and header write-back                                         *)
(***************************************************************************)
\* what mmc_lock does once fcntl has granted the byte range of page p
mmc_lock(c, pg, p) ==
  IF pg.magic # Magic THEN [c |-> c, ret |-> -1]
  ELSE LET c1 == [c EXCEPT !.p_num_slots = pg.num_slots,
                           !.p_free_slots = pg.free_slots,
                           !.p_old_slots = pg.old_slots,
                           !.p_free_data = pg.free_data,
                           !.p_free_bytes = pg.free_bytes]
       IN IF c1.p_num_slots < MinSlots \/ c1.p_num_slots > c.c_page_size
             \/ c1.p_free_slots < 0 \/ c1.p_free_slots > c1.p_num_slots
             \/ c1.p_old_slots > c1.p_free_slots
             \/ c1.p_free_data + c1.p_free_bytes # c.c_page_size
          THEN [c |-> c1, ret |-> -1]
          ELSE [c |-> [c1 EXCEPT !.p_cur = p, !.p_base = p], ret |-> 0]

\* the page as mmc_unlock leaves it, and the handle
mmc_unlock(c, pg) ==
  [c |-> [c EXCEPT !.p_cur = NoPage],
   pg |-> IF c.p_changed # 0
          THEN [pg EXCEPT !.num_slots = c.p_num_slots,
                          !.free_slots = c.p_free_slots,
                          !.old_slots = c.p_old_slots,
                          !.free_data = c.p_free_data,
                          !.free_bytes = c.p_free_bytes]
          ELSE pg]

(***************************************************************************)
(* Expunge engine                                                          *)
(***************************************************************************)
RECURSIVE SumRange(_, _, _, _)
SumRange(pg, offs, lo, hi) ==
  IF lo > hi THEN 0
  ELSE IF lo = hi THEN RecLen(S_Ptr(pg, offs[lo]))
  ELSE SumRange(pg, offs, lo, (lo + hi) \div 2)
       + SumRange(pg, offs, (lo + hi) \div 2 + 1, hi)

\* total rounded length of the records at offs
SumLen(pg, offs) == SumRange(pg, offs, 1, Len(offs))

Reverse(s) == [i \in 1 .. Len(s) |-> s[Len(s) + 1 - i]]

SeqRange(s) == {s[i] : i \in 1 .. Len(s)}

\* data offsets of the used slots, in slot order
UsedOffsets(c, pg) ==
  LET idx == [i \in 1 .. c.p_num_slots |-> SlotAt(pg, i - 1)]
      used(o) == o > 1
  IN SelectSeq(idx, used)

\* qsort with a comparison that sorts descending
RECURSIVE SortedOrders_desc(_, _)
SortedOrders_desc(pg, S) ==
  IF S = {} THEN {<<>>}
  ELSE LET least == {x \in S : \A y \in S :
                        S_Ptr(pg, x).last_access >= S_Ptr(pg, y).last_access}
       IN UNION {{<<x>> \o r : r \in SortedOrders_desc(pg, S \ {x})} : x \in least}

\* qsort with last_access_cmp: every order that is ascending in last_access
RECURSIVE SortedOrders(_, _)
SortedOrders(pg, S) ==
  IF S = {} THEN {<<>>}
  ELSE LET least == {x \in S : \A y \in S :
                        S_Ptr(pg, x).last_access <= S_Ptr(pg, y).last_access}
       IN UNION {{<<x>> \o r : r \in SortedOrders(pg, S \ {x})} : x \in least}

\* a mode 2 loop that throws out nothing
EvictCount_none(pg, in, used_data, data_thresh) == 0

\* how many of the sorted keep-candidates the mode 2 loop throws out
RECURSIVE EvictCount(_, _, _, _)
EvictCount(pg, in, used_data, data_thresh) ==
  IF in # <<>> /\ used_data >= data_thresh
  THEN 1 + EvictCount(pg, Tail(in), used_data - RecLen(S_Ptr(pg, Head(in))), data_thresh)
  ELSE 0

NoPlan == [num_expunge |-> -1, new_num_slots |-> 0, to_expunge |-> <<>>]

\* mmc_calc_expunge with the 30% test of mode 2 the wrong way round
mmc_calc_expunge_few_free(c, pg, mode, len, t) ==
  LET kvlen0 == ROUNDLEN(KV_SlotLen(len, 0)) IN
  IF mode = 2 /\ len >= 0
     /\ 10 * (c.p_free_slots - c.p_old_slots) < 3 * c.p_num_slots
     /\ c.p_free_bytes >= kvlen0
  THEN {NoPlan}
  ELSE
    LET num_slots == c.p_num_slots
        page_data_size == c.c_page_size - num_slots * 4 - P_HEADERSIZE
        used == UsedOffsets(c, pg)
        isOut(o) == mode = 1 \/ (S_Ptr(pg, o).expire_time # 0
                                  /\ t >= S_Ptr(pg, o).expire_time)
        isIn(o) == ~isOut(o)
        out == SelectSeq(used, isOut)
        in == Reverse(SelectSeq(used, isIn))
        used_data == SumLen(pg, in)
        new_slots == IF 10 * Len(in) > 3 * num_slots
                        /\ (page_data_size - used_data > (num_slots + 1) * 4 \/ mode = 2)
                     THEN num_slots * 2 + 1 ELSE num_slots
        new_data_size == c.c_page_size - new_slots * 4 - P_HEADERSIZE
        data_thresh == (6 * new_data_size) \div 10
    IN IF mode = 0 \/ mode = 1
       THEN {[num_expunge |-> Len(out), new_num_slots |-> new_slots,
              to_expunge |-> out \o in]}
       ELSE {[num_expunge |-> Len(out) + EvictCount(pg, srt, used_data, data_thresh),
              new_num_slots |-> new_slots,
              to_expunge |-> out \o srt] : srt \in SortedOrders(pg, SeqRange(in))}

\* mmc_calc_expunge that enlarges the slot table without looking at the room
mmc_calc_expunge_no_room_test(c, pg, mode, len, t) ==
  LET kvlen0 == ROUNDLEN(KV_SlotLen(len, 0)) IN
  IF mode = 2 /\ len >= 0
     /\ 10 * (c.p_free_slots - c.p_old_slots) > 3 * c.p_num_slots
     /\ c.p_free_bytes >= kvlen0
  THEN {NoPlan}
  ELSE
    LET num_slots == c.p_num_slots
        used == UsedOffsets(c, pg)
        isOut(o) == mode = 1 \/ (S_Ptr(pg, o).expire_time # 0
                                  /\ t >= S_Ptr(pg, o).expire_time)
        isIn(o) == ~isOut(o)
        out == SelectSeq(used, isOut)
        in == Reverse(SelectSeq(used, isIn))
        used_data == SumLen(pg, in)
        new_slots == IF 10 * Len(in) > 3 * num_slots
                     THEN num_slots * 2 + 1 ELSE num_slots
        new_data_size == c.c_page_size - new_slots * 4 - P_HEADERSIZE
        data_thresh == (6 * new_data_size) \div 10
    IN IF mode = 0 \/ mode = 1
       THEN {[num_expunge |-> Len(out), new_num_slots |-> new_slots,
              to_expunge |-> out \o in]}
       ELSE {[num_expunge |-> Len(out) + EvictCount(pg, srt, used_data, data_thresh),
              new_num_slots |-> new_slots,
              to_expunge |-> out \o srt] : srt \in SortedOrders(pg, SeqRange(in))}

\* the set of results mmc_calc_expunge can return (NoPlan: nothing to do)
mmc_calc_expunge(c, pg, mode, len, t) ==
  LET kvlen0 == ROUNDLEN(KV_SlotLen(len, 0)) IN
  IF mode = 2 /\ len >= 0
     /\ 10 * (c.p_free_slots - c.p_old_slots) > 3 * c.p_num_slots
     /\ c.p_free_bytes >= kvlen0
  THEN {NoPlan}
  ELSE
    LET num_slots == c.p_num_slots
        page_data_size == c.c_page_size - num_slots * 4 - P_HEADERSIZE
        used == UsedOffsets(c, pg)
        isOut(o) == mode = 1 \/ (S_Ptr(pg, o).expire_time # 0
                                  /\ t >= S_Ptr(pg, o).expire_time)
        isIn(o) == ~isOut(o)
        out == SelectSeq(used, isOut)
        in == Reverse(SelectSeq(used, isIn))
        used_data == SumLen(pg, in)
        new_slots == IF 10 * Len(in) > 3 * num_slots
                        /\ (page_data_size - used_data > (num_slots + 1) * 4 \/ mode = 2)
                     THEN num_slots * 2 + 1 ELSE num_slots
        new_data_size == c.c_page_size - new_slots * 4 - P_HEADERSIZE
        data_thresh == (6 * new_data_size) \div 10
    IN IF mode = 0 \/ mode = 1
       THEN {[num_expunge |-> Len(out), new_num_slots |-> new_slots,
              to_expunge |-> out \o in]}
       ELSE {[num_expunge |-> Len(out) + EvictCount(pg, srt, used_data, data_thresh),
              new_num_slots |-> new_slots,
              to_expunge |-> out \o srt] : srt \in SortedOrders(pg, SeqRange(in))}

\* first free slot of the scratch table from slot on; NullSlot: the loop never ends
ProbeFree(tbl, slot, n) ==
  LET free(k) == tbl[(slot + k) % n] = 0
  IN IF \E k \in 0 .. (n - 1) : free(k)
     THEN (slot + (CHOOSE k \in 0 .. (n - 1) : free(k) /\ \A j \in 0 .. (k - 1) : ~free(j))) % n
     ELSE NullSlot

\* one pass of the copy loop of mmc_do_expunge: scratch table, scratch heap, offset
ExpungeStep(pg, off, n, acc) ==
  LET rec == S_Ptr(pg, off)
      slot == ProbeFree(acc.tbl, rec.slot_hash % n, n)
      at == acc.new_offset + n * 4 + P_HEADERSIZE
  IN IF slot = NullSlot THEN [acc EXCEPT !.hang = TRUE]
     ELSE [tbl |-> [acc.tbl EXCEPT ![slot] = at],
           heap |-> HeapStore(acc.heap, at, rec),
           new_offset |-> acc.new_offset + RecLen(rec),
           hang |-> FALSE]

\* the passes for to_keep[lo .. hi], in order
RECURSIVE ExpungeCopy(_, _, _, _, _, _)
ExpungeCopy(pg, keep, lo, hi, n, acc) ==
  IF lo > hi \/ acc.hang THEN acc
  ELSE IF lo = hi THEN ExpungeStep(pg, keep[lo], n, acc)
  ELSE LET half == ExpungeCopy(pg, keep, lo, (lo + hi) \div 2, n, acc)
       IN IF half.hang THEN half
          ELSE ExpungeCopy(pg, keep, (lo + hi) \div 2 + 1, hi, n, half)

\* mmc_do_expunge that keeps the last record of the expunge list
mmc_do_expunge_keeps_one(c, pg, plan) ==
  LET used_slots == c.p_num_slots - c.p_free_slots
      to_keep == SubSeq(plan.to_expunge, IF plan.num_expunge > 0 THEN plan.num_expunge ELSE 1, used_slots)
      n == plan.new_num_slots
      page_data_size == c.c_page_size - n * 4 - P_HEADERSIZE
      r == ExpungeCopy(pg, to_keep, 1, Len(to_keep), n,
             [tbl |-> [i \in 0 .. (n - 1) |-> 0], heap |-> EmptyHeap,
              new_offset |-> 0, hang |-> FALSE])
  IN [c |-> [c EXCEPT !.p_num_slots = n,
                      !.p_free_slots = n - Len(to_keep),
                      !.p_old_slots = 0,
                      !.p_free_data = r.new_offset + n * 4 + P_HEADERSIZE,
                      !.p_free_bytes = page_data_size - r.new_offset,
                      !.p_changed = 1],
      pg |-> [pg EXCEPT !.slots = r.tbl, !.heap = r.heap],
      hang |-> r.hang]

\* mmc_do_expunge that counts the expunged records as still using a slot
mmc_do_expunge_counts_all(c, pg, plan) ==
  LET used_slots == c.p_num_slots - c.p_free_slots
      to_keep == SubSeq(plan.to_expunge, plan.num_expunge + 1, used_slots)
      n == plan.new_num_slots
      page_data_size == c.c_page_size - n * 4 - P_HEADERSIZE
      r == ExpungeCopy(pg, to_keep, 1, Len(to_keep), n,
             [tbl |-> [i \in 0 .. (n - 1) |-> 0], heap |-> EmptyHeap,
              new_offset |-> 0, hang |-> FALSE])
  IN [c |-> [c EXCEPT !.p_num_slots = n,
                      !.p_free_slots = n - used_slots,
                      !.p_old_slots = 0,
                      !.p_free_data = r.new_offset + n * 4 + P_HEADERSIZE,
                      !.p_free_bytes = page_data_size - r.new_offset,
                      !.p_changed = 1],
      pg |-> [pg EXCEPT !.slots = r.tbl, !.heap = r.heap],
      hang |-> r.hang]

mmc_do_expunge(c, pg, plan) ==
  LET used_slots == c.p_num_slots - c.p_free_slots
      to_keep == SubSeq(plan.to_expunge, plan.num_expunge + 1, used_slots)
      n == plan.new_num_slots
      page_data_size == c.c_page_size - n * 4 - P_HEADERSIZE
      r == ExpungeCopy(pg, to_keep, 1, Len(to_keep), n,
             [tbl |-> [i \in 0 .. (n - 1) |-> 0], heap |-> EmptyHeap,
              new_offset |-> 0, hang |-> FALSE])
  IN [c |-> [c EXCEPT !.p_num_slots = n,
                      !.p_free_slots = n - Len(to_keep),
                      !.p_old_slots = 0,
                      !.p_free_data = r.new_offset + n * 4 + P_HEADERSIZE,
                      !.p_free_bytes = page_data_size - r.new_offset,
                      !.p_changed = 1],
      pg |-> [pg EXCEPT !.slots = r.tbl, !.heap = r.heap],
      hang |-> r.hang]

\* the records mmc_iterate_next returns from a locked page: those of the used
\* slots, in slot order
IteratePage(c, pg) ==
  LET offs == UsedOffsets(c, pg)
  IN [i \in 1 .. Len(offs) |-> S_Ptr(pg, offs[i])]

(***************************************************************************)
(* Integrity self-check                                                    *)
(***************************************************************************)
_mmc_test_page(c, pg) ==
  LET n == c.p_num_slots
      data_size == c.c_page_size
      slotOk(i) ==
        LET data_offset == SlotAt(pg, i)
            rec == S_Ptr(pg, data_offset)
            kvlen == RecLen(rec)
        IN data_offset <= 1
           \/ /\ data_offset >= P_HEADERSIZE + n * 4
              /\ data_offset < data_size
              /\ rec.last_access > LastAccessMin /\ rec.last_access < LastAccessMax
              /\ \/ rec.expire_time = 0
                 \/ rec.expire_time > LastAccessMin /\ rec.expire_time < LastAccessMax
              /\ Len(rec.key) < data_size
              /\ Len(rec.val) < data_size
              /\ kvlen >= 16 /\ kvlen < data_size
              /\ mmc_hash(rec.key).hash_slot = rec.slot_hash
              /\ _mmc_find_slot(c, pg, rec.slot_hash, rec.key, 0) = i
              /\ c.p_free_data >= data_offset + kvlen
      count_free == Cardinality({i \in 0 .. (n - 1) : SlotAt(pg, i) <= 1})
      count_old == Cardinality({i \in 0 .. (n - 1) : SlotAt(pg, i) = 1})
  IN /\ c.p_cur # NoPage
     /\ \A i \in 0 .. (n - 1) : slotOk(i)
     /\ count_free = c.p_free_slots
     /\ count_old = c.p_old_slots

(***************************************************************************)
(* State                                                                   *)
(***************************************************************************)
VARIABLES
  file,       \* the mapped backing file: page index -> page
  lockOwner,  \* page index -> the process holding its fcntl range lock
  cache,      \* process -> its struct mmap_cache
  pc,         \* process -> where it is: "new", "test", "init", "ready"
  ti,         \* process -> loop index i of the test_file loop of mmc_init
  plan,       \* process -> the result of mmc_calc_expunge not yet applied
  now,        \* time(0)
  left,       \* number of page operations the run may still do
  last,       \* the latest operation that touched a page, with the state before it
  prev,       \* the operation before it
  amap,       \* page -> key -> what the latest stored write or delete of it left
  pure,       \* page -> only stored, never-expiring writes, deletes and reads so far
  it,         \* process -> its struct mmap_cache_it, and what it has returned
  sig,        \* process -> its alarm timer and what it does on SIGALRM
  call        \* process -> where its mmc_lock call is in the fcntl loop

vars == <<file, lockOwner, cache, pc, ti, plan, now, left, last, prev, amap, pure,
          it, sig, call>>

\* the state of the iterator and of the fcntl loop
others == <<it, sig, call>>

Absent == <<>>

\* no iterator: mmc_iterate_new has not been called, or mmc_iterate_close has
NoIt == [open |-> FALSE, at |-> "idle", p_cur |-> NoPage, base |-> NoPage, slot_ptr |-> -1,
         slot_ptr_end |-> -1, seen |-> <<>>, done |-> FALSE, stray |-> FALSE,
         unheld |-> FALSE]

\* no alarm pending, SIGALRM handled by the program
NoAlarm == [alarm |-> 0, handler |-> TRUE]

\* no mmc_lock call in its fcntl loop
NoCall == [at |-> "idle", page |-> NoPage, old_alarm |-> 0, ret |-> 0,
           entry |-> 0, signals |-> 0, why |-> "none", rearm |-> -1]

NoEvent ==
  [op |-> "none", proc |-> NoProc, page |-> NoPage, key |-> <<>>,
   inval |-> NoVal, inflags |-> 0, ret |-> 0, val |-> NoVal, flags |-> 0,
   expired |-> FALSE, held |-> TRUE, t |-> 0, had |-> FALSE, wasPure |-> FALSE,
   applied |-> NoPlan,
   pre_c |-> mmc_new(0, 0, 0, 0), pre_pg |-> ZeroPage]

Brief(e) == [op |-> e.op, proc |-> e.proc, page |-> e.page, key |-> e.key,
             inval |-> e.inval, inflags |-> e.inflags, ret |-> e.ret, t |-> e.t,
             flags |-> e.flags, expired |-> e.expired]

\* the event of process p operating on page pg; r is the operation's result
EventAt(p, pg, op, key, inval, inflags, r) ==
  [op |-> op, proc |-> p, page |-> pg, key |-> key,
   inval |-> inval, inflags |-> inflags,
   ret |-> r.ret, val |-> r.val, flags |-> r.flags,
   expired |-> op = "read" /\ r.ret = -1 /\ r.c.p_free_slots # cache[p].p_free_slots,
   held |-> lockOwner[pg] = p, t |-> now,
   had |-> key \in Keys /\ amap[pg][key] # Absent,
   wasPure |-> pure[pg],
   applied |-> IF op = "do_expunge" THEN plan[p] ELSE NoPlan,
   pre_c |-> cache[p], pre_pg |-> file[pg]]

\* ... on the page its handle points at
Event(p, op, key, inval, inflags, r) ==
  EventAt(p, cache[p].p_base, op, key, inval, inflags, r)

\* a handle may operate on a page once mmc_lock has made it current
CanOperate(p) ==
  /\ pc[p] = "ready"
  /\ cache[p].p_cur # NoPage
  /\ plan[p] = NoPlan
  /\ left > 0

Commit(p, ev, c2, pg2) ==
  /\ cache' = [cache EXCEPT ![p] = c2]
  /\ file' = [file EXCEPT ![cache[p].p_base] = pg2]
  /\ last' = ev
  /\ prev' = Brief(last)
  /\ left' = left - 1

(***************************************************************************)
(* Operations on the current page                                          *)
(***************************************************************************)
Write(p, key, in) ==
  /\ CanOperate(p)
  /\ key \in KeysOf(cache[p].p_cur)
  /\ LET pg == cache[p].p_base
         r == mmc_write(cache[p], file[pg], mmc_hash(key).hash_slot, key, in[1], in[2], now)
     IN /\ Commit(p, Event(p, "write", key, in[1], in[2],
                            [c |-> r.c, ret |-> r.ret, val |-> NoVal, flags |-> 0]), r.c, r.pg)
        /\ amap' = [amap EXCEPT ![pg][key] = IF r.ret = 1 THEN <<in[1], in[2]>> ELSE @]
        /\ pure' = [pure EXCEPT ![pg] = @ /\ r.ret = 1 /\ cache[p].expire_time = 0]
  /\ UNCHANGED <<lockOwner, pc, ti, plan, now>>
  /\ UNCHANGED others

Read(p, key) ==
  /\ CanOperate(p)
  /\ key \in KeysOf(cache[p].p_cur)
  /\ LET pg == cache[p].p_base
         r == mmc_read(cache[p], file[pg], mmc_hash(key).hash_slot, key, now)
     IN Commit(p, Event(p, "read", key, NoVal, 0, r), r.c, r.pg)
  /\ UNCHANGED <<lockOwner, pc, ti, plan, now, amap, pure>>
  /\ UNCHANGED others

Delete(p, key) ==
  /\ CanOperate(p)
  /\ key \in KeysOf(cache[p].p_cur)
  /\ LET pg == cache[p].p_base
         r == mmc_delete(cache[p], file[pg], mmc_hash(key).hash_slot, key)
     IN /\ Commit(p, Event(p, "delete", key, NoVal, 0,
                            [c |-> r.c, ret |-> r.ret, val |-> NoVal, flags |-> r.flags]), r.c, r.pg)
        /\ amap' = [amap EXCEPT ![pg][key] = Absent]
  /\ UNCHANGED <<lockOwner, pc, ti, plan, now, pure>>
  /\ UNCHANGED others

CalcExpunge(p, mode, len) ==
  /\ CanOperate(p)
  /\ \E pl \in mmc_calc_expunge(cache[p], file[cache[p].p_base], mode, len, now) :
       /\ plan' = [plan EXCEPT ![p] = pl]
       /\ Commit(p, Event(p, "calc_expunge", <<>>, NoVal, mode,
                          [c |-> cache[p], ret |-> IF pl = NoPlan THEN 0 ELSE pl.num_expunge,
                           val |-> NoVal, flags |-> len]),
                 cache[p], file[cache[p].p_base])
  /\ UNCHANGED <<lockOwner, pc, ti, now, amap, pure>>
  /\ UNCHANGED others

DoExpunge(p) ==
  /\ pc[p] = "ready"
  /\ cache[p].p_cur # NoPage
  /\ plan[p] # NoPlan
  /\ LET pg == cache[p].p_base
         r == mmc_do_expunge(cache[p], file[pg], plan[p])
     IN /\ ~r.hang
        /\ cache' = [cache EXCEPT ![p] = r.c]
        /\ file' = [file EXCEPT ![pg] = r.pg]
        /\ last' = Event(p, "do_expunge", <<>>, NoVal, last.inflags,
                         [c |-> r.c, ret |-> 0, val |-> NoVal, flags |-> last.flags])
        /\ prev' = Brief(last)
        /\ pure' = [pure EXCEPT ![pg] = FALSE]
  /\ plan' = [plan EXCEPT ![p] = NoPlan]
  /\ UNCHANGED <<lockOwner, pc, ti, now, left, amap>>
  /\ UNCHANGED others

Tick ==
  /\ now + 1 \in Times
  /\ now' = now + 1
  /\ UNCHANGED <<file, lockOwner, cache, pc, ti, plan, left, last, prev, amap, pure>>
  /\ UNCHANGED others

(***************************************************************************)
(* Locking                                                                 *)
(***************************************************************************)
\* fcntl(F_SETLKW) returns once no other process holds the range; the range
\* stays locked whatever the header validation that follows says
Lock(p, page) ==
  /\ pc[p] = "ready"
  /\ cache[p].p_cur = NoPage
  /\ lockOwner[page] \in {NoProc, p}
  /\ lockOwner' = [lockOwner EXCEPT ![page] = p]
  /\ LET r == mmc_lock(cache[p], file[page], page)
     IN /\ cache' = [cache EXCEPT ![p] = r.c]
        /\ last' = [EventAt(p, page, "lock", <<>>, NoVal, 0,
                            [c |-> r.c, ret |-> r.ret, val |-> NoVal, flags |-> 0])
                    EXCEPT !.held = TRUE]
        /\ prev' = Brief(last)
  /\ UNCHANGED <<file, pc, ti, plan, now, left, amap, pure>>
  /\ UNCHANGED others

Unlock(p) ==
  /\ CanOperate(p)
  /\ LET pg == cache[p].p_base
         r == mmc_unlock(cache[p], file[pg])
     IN /\ cache' = [cache EXCEPT ![p] = r.c]
        /\ file' = [file EXCEPT ![pg] = r.pg]
        /\ lockOwner' = [lockOwner EXCEPT ![pg] = IF @ = p THEN NoProc ELSE @]
        /\ last' = Event(p, "unlock", <<>>, NoVal, 0,
                         [c |-> r.c, ret |-> 0, val |-> NoVal, flags |-> 0])
        /\ prev' = Brief(last)
  /\ left' = left - 1
  /\ UNCHANGED <<pc, ti, plan, now, amap, pure>>
  /\ UNCHANGED others

(***************************************************************************)
(* mmc_init on an existing file with test_file set                         *)
(***************************************************************************)
OpenTest(p) ==
  /\ pc[p] = "new"
  /\ pc' = [pc EXCEPT ![p] = IF cache[p].test_file # 0 THEN "test" ELSE "ready"]
  /\ ti' = [ti EXCEPT ![p] = 0]
  /\ UNCHANGED <<file, lockOwner, cache, plan, now, left, last, prev, amap, pure>>
  /\ UNCHANGED others

\* one pass of the loop body up to the unlock: lock page i, test it, unlock it
TestCheck(p) ==
  /\ pc[p] = "test"
  /\ IF ti[p] >= NumPages
     THEN /\ pc' = [pc EXCEPT ![p] = "ready"]
          /\ UNCHANGED <<file, lockOwner, cache, last, prev>>
     ELSE LET i == ti[p]
              l == mmc_lock(cache[p], file[i], i)
              u == mmc_unlock(l.c, file[i])
              bad_page == l.ret # 0 \/ ~_mmc_test_page(l.c, file[i])
          IN /\ lockOwner[i] \in {NoProc, p}
             /\ IF l.ret # 0
                THEN /\ cache' = [cache EXCEPT ![p] = l.c]
                     /\ lockOwner' = [lockOwner EXCEPT ![i] = p]
                     /\ last' = [EventAt(p, i, "lock", <<>>, NoVal, 0,
                                         [c |-> l.c, ret |-> l.ret, val |-> NoVal, flags |-> 0])
                                 EXCEPT !.held = TRUE]
                     /\ prev' = Brief(last)
                     /\ UNCHANGED file
                ELSE /\ cache' = [cache EXCEPT ![p] = u.c]
                     /\ file' = [file EXCEPT ![i] = u.pg]
                     /\ lockOwner' = [lockOwner EXCEPT ![i] = NoProc]
                     /\ IF l.c.p_changed # 0
                        THEN /\ last' = [EventAt(p, i, "unlock", <<>>, NoVal, 0,
                                           [c |-> u.c, ret |-> 0, val |-> NoVal, flags |-> 0])
                                         EXCEPT !.held = TRUE]
                             /\ prev' = Brief(last)
                        ELSE UNCHANGED <<last, prev>>
             /\ pc' = [pc EXCEPT ![p] = IF bad_page THEN "init" ELSE "test"]
  /\ ti' = [ti EXCEPT ![p] = IF ti[p] < NumPages /\ pc'[p] = "test" THEN @ + 1 ELSE @]
  /\ UNCHANGED <<plan, now, left, amap, pure>>
  /\ UNCHANGED others

\* a bad page: _mmc_init_page(cache, i), then the loop runs page i again
TestInit(p) ==
  /\ pc[p] = "init"
  /\ file' = [file EXCEPT ![ti[p]] = _mmc_init_page(cache[p])]
  /\ last' = EventAt(p, ti[p], "init_page", <<>>, NoVal, 0,
                     [c |-> cache[p], ret |-> 0, val |-> NoVal, flags |-> 0])
  /\ prev' = Brief(last)
  /\ pc' = [pc EXCEPT ![p] = "test"]
  /\ amap' = [amap EXCEPT ![ti[p]] = [k \in Keys |-> Absent]]
  /\ pure' = [pure EXCEPT ![ti[p]] = FALSE]
  /\ UNCHANGED <<lockOwner, cache, ti, plan, now, left>>
  /\ UNCHANGED others

(***************************************************************************)
(* Specifications                                                          *)
(***************************************************************************)
InitFile(hs, f, owner, budget, stored) ==
  /\ it = [p \in Procs |-> NoIt]
  /\ call = [p \in Procs |-> NoCall]
  /\ cache = hs
  /\ file = f
  /\ lockOwner = owner
  /\ plan = [p \in Procs |-> NoPlan]
  /\ ti = [p \in Procs |-> 0]
  /\ now = LastAccessMax - MaxTicks
  /\ left = budget
  /\ last = NoEvent
  /\ prev = Brief(NoEvent)
  /\ amap = [pg \in Pages |-> [k \in Keys |-> IF pg = 0 THEN stored[k] ELSE Absent]]
  /\ pure = [pg \in Pages |-> TRUE]

\* process 1 has the file open, process 2 has only made its handle
InitWith(hs, f, owner, budget, stored) ==
  /\ InitFile(hs, f, owner, budget, stored)
  /\ pc = [p \in Procs |-> IF p = 1 THEN "ready" ELSE "new"]
  /\ sig = [p \in Procs |-> NoAlarm]

\* ... when the keys in known hold ValSmall on page 0
InitState(hs, f, owner, budget, known) ==
  InitWith(hs, f, owner, budget,
           [k \in Keys |-> IF k \in known THEN <<ValSmall, 7>> ELSE Absent])

\* mmc_init on a file that did not exist: every page is initialised
FreshFile(h) == [pg \in Pages |-> _mmc_init_page(h)]

NoLocks == [pg \in Pages |-> NoProc]

\* Process 1 created the file; process 2 will open it with test_file = 1.
\* mmc_new never sets p_changed: a new handle holds either value.
Init ==
  \E ch1 \in {0, 1}, ch2 \in {0, 1} :
    InitState([p \in Procs |-> IF p = 1 THEN mmc_new(PageSize, 0, 0, ch1)
                               ELSE mmc_new(PageSize, 0, 1, ch2)],
              FreshFile(mmc_new(PageSize, 0, 0, ch1)), NoLocks, MaxSharedOps, {})

\* one key of each page
SharedKeys == {KeyA, KeyD}

Next ==
  \/ \E p \in Procs, page \in Pages : Lock(p, page)
  \/ \E p \in Procs : Unlock(p)
  \/ \E p \in Procs, key \in SharedKeys : Write(p, key, <<ValSmall, 7>>)
  \/ \E p \in Procs, key \in SharedKeys : Read(p, key)
  \/ \E p \in Procs, key \in SharedKeys : Delete(p, key)
  \/ \E p \in Procs : OpenTest(p)
  \/ \E p \in Procs : TestCheck(p)
  \/ \E p \in Procs : TestInit(p)
  \/ Tick

Spec == Init /\ [][Next]_vars

\* Process 1 has created the file and locked page 0.
LockedFresh(page_size, e, ch) ==
  LET h == mmc_new(page_size, e, 0, ch)
      f == FreshFile(h)
  IN [c |-> mmc_lock(h, f[0], 0).c, f |-> f]

Page0Locked == [pg \in Pages |-> IF pg = 0 THEN 1 ELSE NoProc]

InitFresh(budget) ==
  \E e \in ExpireSettings, ch \in {0, 1} :
    LET s == LockedFresh(PageSize, e, ch)
    IN InitState([p \in Procs |-> IF p = 1 THEN s.c ELSE mmc_new(PageSize, e, 0, ch)], s.f, Page0Locked, budget, {})

\* The keys 1, 3, 5, ... of page 0, one for each slot of a new page
FillKey(i) == <<2 * i - 1>>

RECURSIVE Fill(_, _, _, _)
Fill(c, pg, lo, hi) ==
  IF lo > hi \/ c.p_cur = NoPage THEN [c |-> c, pg |-> pg]
  ELSE IF lo = hi
  THEN LET w == mmc_write(c, pg, mmc_hash(FillKey(lo)).hash_slot, FillKey(lo),
                          ValSmall, 7, LastAccessMax - MaxTicks)
       IN [c |-> w.c, pg |-> w.pg]
  ELSE LET mid == (lo + hi) \div 2
           s == Fill(c, pg, lo, mid)
       IN IF s.c.p_cur = NoPage THEN s ELSE Fill(s.c, s.pg, mid + 1, hi)

\* Process 1 has then written one key to every slot of page 0.
InitFull(budget) ==
  LET s == LockedFresh(FullPageSize, 0, 0)
      w == Fill(s.c, s.f[0], 1, StartSlots)
  IN InitState([p \in Procs |-> IF p = 1 THEN w.c ELSE mmc_new(FullPageSize, 0, 0, 0)],
               [s.f EXCEPT ![0] = w.pg], Page0Locked, budget,
               {FillKey(i) : i \in 1 .. StartSlots})

\* Process 1 has written two small records and a large one, at three times, to
\* a page whose heap they fill to 60%.
InitThresh(budget) ==
  LET s == LockedFresh(ThreshPageSize, 0, 0)
      t0 == LastAccessMax - MaxTicks
      w1 == mmc_write(s.c, s.f[0], mmc_hash(KeyA).hash_slot, KeyA, ValSmall, 7, t0 - 2)
      w2 == mmc_write(w1.c, w1.pg, mmc_hash(KeyB).hash_slot, KeyB, ValBig, 0, t0 - 1)
      w3 == mmc_write(w2.c, w2.pg, mmc_hash(KeyC).hash_slot, KeyC, ValSmall, 7, t0)
  IN InitWith([p \in Procs |-> IF p = 1 THEN w3.c ELSE mmc_new(ThreshPageSize, 0, 0, 0)],
              [s.f EXCEPT ![0] = w3.pg], Page0Locked, budget,
              [k \in Keys |-> IF k = KeyB THEN <<ValBig, 0>>
                               ELSE IF k \in {KeyA, KeyC} THEN <<ValSmall, 7>>
                               ELSE Absent])

\* ... each key at a time of its own, key i at second i before the start
RECURSIVE FillAged(_, _, _, _)
FillAged(c, pg, lo, hi) ==
  IF lo > hi \/ c.p_cur = NoPage THEN [c |-> c, pg |-> pg]
  ELSE IF lo = hi
  THEN LET w == mmc_write(c, pg, mmc_hash(FillKey(lo)).hash_slot, FillKey(lo),
                          ValSmall, 7, LastAccessMax - MaxTicks - lo)
       IN [c |-> w.c, pg |-> w.pg]
  ELSE LET mid == (lo + hi) \div 2
           s == FillAged(c, pg, lo, mid)
       IN IF s.c.p_cur = NoPage THEN s ELSE FillAged(s.c, s.pg, mid + 1, hi)

\* Process 1 has written keys to more than 30% of the slots of page 0, each at
\* another time, and the page has no room left for a larger slot table.
InitDense(budget) ==
  LET s == LockedFresh(DensePageSize, 0, 0)
      k == (3 * StartSlots) \div 10 + 1
      w == FillAged(s.c, s.f[0], 1, k)
  IN InitState([p \in Procs |-> IF p = 1 THEN w.c ELSE mmc_new(DensePageSize, 0, 0, 0)],
               [s.f EXCEPT ![0] = w.pg], Page0Locked, budget,
               {FillKey(i) : i \in 1 .. k})

\* Process 1 has written one key to every slot of page 0, and the page has no
\* room left for a larger slot table.
InitTight(budget) ==
  LET s == LockedFresh(TightPageSize, 0, 0)
      w == Fill(s.c, s.f[0], 1, StartSlots)
  IN InitState([p \in Procs |-> IF p = 1 THEN w.c ELSE mmc_new(TightPageSize, 0, 0, 0)],
               [s.f EXCEPT ![0] = w.pg], Page0Locked, budget,
               {FillKey(i) : i \in 1 .. StartSlots})

\* Process 1 has written the colliding keys A and B, deleted A and written B
\* again.
InitRewritten(budget) ==
  LET s == LockedFresh(PageSize, 0, 0)
      t0 == LastAccessMax - MaxTicks
      w1 == mmc_write(s.c, s.f[0], mmc_hash(KeyA).hash_slot, KeyA, ValSmall, 7, t0 - 3)
      w2 == mmc_write(w1.c, w1.pg, mmc_hash(KeyB).hash_slot, KeyB, ValSmall, 7, t0 - 2)
      d3 == mmc_delete(w2.c, w2.pg, mmc_hash(KeyA).hash_slot, KeyA)
      w4 == mmc_write(d3.c, d3.pg, mmc_hash(KeyB).hash_slot, KeyB, ValBig, 0, t0 - 1)
  IN InitWith([p \in Procs |-> IF p = 1 THEN w4.c ELSE mmc_new(PageSize, 0, 0, 0)],
              [s.f EXCEPT ![0] = w4.pg], Page0Locked, budget,
              [k \in Keys |-> IF k = KeyB THEN <<ValBig, 0>> ELSE Absent])

\* mmc_calc_expunge(mode, len) as callers use it; the orders of a qsort are
\* enumerated when no more than MaxSort records share a last_access time
CanCalc(p, a) ==
  LET pg == file[cache[p].p_base]
      offs == UsedOffsets(cache[p], pg)
      used == SeqRange(offs)
  IN a[1] = 2 =>
       \/ Len(offs) <= MaxSort
       \/ \A t \in {S_Ptr(pg, o).last_access : o \in used} :
            Cardinality({x \in used : S_Ptr(pg, x).last_access = t}) <= MaxSort

NextPage ==
  \/ \E key \in Keys, in \in WriteInputs : Write(1, key, in)
  \/ \E key \in Keys : Read(1, key)
  \/ \E key \in Keys : Delete(1, key)
  \/ \E a \in ExpungeArgs : CanCalc(1, a) /\ CalcExpunge(1, a[1], a[2])
  \/ DoExpunge(1)
  \/ Unlock(1)
  \/ Lock(1, 0)
  \/ Tick

SpecPage ==
  (InitFresh(MaxOps) \/ InitFull(MaxFullOps) \/ InitThresh(MaxFullOps)
   \/ InitTight(MaxTightOps) \/ InitDense(MaxTightOps) \/ InitRewritten(MaxFullOps)) /\ [][NextPage]_vars

\* Two colliding keys and one value, for longer runs.
NextMap ==
  \/ \E key \in {KeyA, KeyB} : Write(1, key, <<ValSmall, 7>>)
  \/ \E key \in {KeyA, KeyB} : Read(1, key)
  \/ \E key \in {KeyA, KeyB} : Delete(1, key)
  \/ Tick

InitMap ==
  \E e \in ExpireSettings :
    LET s == LockedFresh(PageSize, e, 0)
    IN InitState([p \in Procs |-> IF p = 1 THEN s.c ELSE mmc_new(PageSize, e, 0, 0)],
                 s.f, Page0Locked, MaxMapOps, {})

SpecMap == InitMap /\ [][NextMap]_vars

\* An existing file of the right size is opened: process 1 has opened it
\* without test_file, process 2 will open it with test_file = 1.  Both use the
\* same start_slots; page 0 holds what Damage made of an empty page, page 1 is
\* an empty page.
SlotSettings == {16, 89, 100}

DamageKinds == {"none", "zero", "magic", "few_slots", "free_slots", "old_slots",
                "sum", "low_data"}

Damage(pg, kind) ==
  CASE kind = "zero" -> ZeroPage
    [] kind = "magic" -> [pg EXCEPT !.magic = NoMagic]
    [] kind = "few_slots" ->
         [pg EXCEPT !.num_slots = @ - 1, !.free_slots = @ - 1,
                    !.free_data = @ - 4, !.free_bytes = @ + 4,
                    !.slots = [i \in 0 .. (pg.num_slots - 2) |-> 0]]
    [] kind = "free_slots" -> [pg EXCEPT !.free_slots = pg.num_slots + 1]
    [] kind = "old_slots" -> [pg EXCEPT !.old_slots = pg.free_slots + 1]
    [] kind = "sum" -> [pg EXCEPT !.free_bytes = @ - 4]
    [] kind = "low_data" ->
         [pg EXCEPT !.free_data = P_HEADERSIZE,
                    !.free_bytes = pg.free_data + pg.free_bytes - P_HEADERSIZE]
    [] OTHER -> pg

InitOpen ==
  \E ss \in SlotSettings, kind \in DamageKinds :
    LET h1 == mmc_set_param(mmc_new(PageSize, 0, 0, 0), "start_slots", ss)
        h2 == mmc_set_param(h1, "test_file", 1)
    IN InitState([p \in Procs |-> IF p = 1 THEN h1 ELSE h2],
                 [pg \in Pages |-> IF pg = 0 THEN Damage(_mmc_init_page(h1), kind)
                                   ELSE _mmc_init_page(h1)],
                 NoLocks, MaxOpenOps, {})

NextOpen ==
  \/ \E p \in Procs, page \in Pages : Lock(p, page)
  \/ \E p \in Procs : Unlock(p)
  \/ \E p \in Procs : OpenTest(p)
  \/ \E p \in Procs : TestCheck(p)
  \/ \E p \in Procs : TestInit(p)

SpecOpen == InitOpen /\ [][NextOpen]_vars

(***************************************************************************)
(* Iterator                                                                *)
(***************************************************************************)
\* a process whose memory access went wrong is killed; the kernel drops its
\* fcntl locks
Dead(p) ==
  /\ pc' = [pc EXCEPT ![p] = "dead"]
  /\ lockOwner' = [pg \in Pages |-> IF lockOwner[pg] = p THEN NoProc ELSE lockOwner[pg]]

\* mmc_iterate_new: no page yet, both slot pointers null
mmc_iterate_new ==
  [NoIt EXCEPT !.open = TRUE, !.slot_ptr = 0, !.slot_ptr_end = 0]

\* the first slot from i on, below end, that holds a record; end if none
RECURSIVE NextUsed(_, _, _)
NextUsed(pg, i, end) ==
  IF i >= end THEN end
  ELSE IF SlotAt(pg, i) > 1 THEN i
  ELSE NextUsed(pg, i + 1, end)

\* mmc_unlock as the iterator calls it: on whatever page the handle's pointers
\* name, whether or not mmc_lock made it current.  wild: the pointers were
\* never set.
IterUnlock(c, f, own, p) ==
  IF c.p_base = NoPage
  THEN [c |-> [c EXCEPT !.p_cur = NoPage], f |-> f, own |-> own,
        unheld |-> TRUE, wild |-> TRUE]
  ELSE LET u == mmc_unlock(c, f[c.p_base])
       IN [c |-> u.c, f |-> [f EXCEPT ![c.p_base] = u.pg],
           own |-> [own EXCEPT ![c.p_base] = IF @ = p THEN NoProc ELSE @],
           unheld |-> c.p_cur = NoPage \/ own[c.p_base] # p,
           wild |-> FALSE]

\* the while loop of mmc_iterate_next, from the slot pointer on, up to its
\* return or to its call of mmc_lock
IterLoop(c, f, own, i, p) ==
  LET j == IF i.base = NoPage THEN i.slot_ptr_end
           ELSE NextUsed(f[i.base], i.slot_ptr, i.slot_ptr_end)
  IN IF j < i.slot_ptr_end
     THEN [c |-> c, f |-> f, own |-> own, wild |-> FALSE,
           it |-> [i EXCEPT !.slot_ptr = j + 1, !.at = "idle",
                            !.seen = Append(@, <<i.base, j>>),
                            !.stray = @ \/ own[i.base] # p]]
     ELSE LET u == IF i.p_cur # NoPage THEN IterUnlock(c, f, own, p)
                   ELSE [c |-> c, f |-> f, own |-> own, unheld |-> FALSE,
                         wild |-> FALSE]
              i1 == [i EXCEPT !.unheld = @ \/ u.unheld]
          IN [c |-> u.c, f |-> u.f, own |-> u.own, wild |-> u.wild,
              it |-> IF i.p_cur + 1 = NumPages
                     THEN [i1 EXCEPT !.p_cur = NoPage, !.slot_ptr = 0,
                                     !.base = NoPage, !.done = TRUE, !.at = "idle"]
                     ELSE [i1 EXCEPT !.p_cur = @ + 1, !.at = "lock"]]

\* what a step leaves when r is what the code computes: a step that went
\* through a pointer that was never set may also kill the process
IterApply(p, r) ==
  \E out \in (IF r.wild THEN {"segv", "garbage"} ELSE {"ok"}) :
    IF out = "segv"
    THEN /\ Dead(p)
         /\ it' = [it EXCEPT ![p] = [r.it EXCEPT !.open = FALSE, !.at = "idle"]]
         /\ UNCHANGED <<cache, file>>
    ELSE /\ cache' = [cache EXCEPT ![p] = r.c]
         /\ file' = r.f
         /\ lockOwner' = r.own
         /\ it' = [it EXCEPT ![p] = r.it]
         /\ UNCHANGED pc

IterNew(p) ==
  /\ pc[p] = "ready"
  /\ cache[p].p_cur = NoPage
  /\ ~it[p].open
  /\ it' = [it EXCEPT ![p] = mmc_iterate_new]
  /\ UNCHANGED <<file, lockOwner, cache, pc, ti, plan, now, left, last, prev, amap,
                 pure, sig, call>>

\* a call of mmc_iterate_next, up to its return or to where it waits for the
\* lock of the next page
IterNext(p) ==
  /\ pc[p] = "ready"
  /\ it[p].open /\ it[p].at = "idle" /\ ~it[p].done
  /\ IterApply(p, IterLoop(cache[p], file, lockOwner, it[p], p))
  /\ UNCHANGED <<ti, plan, now, left, last, prev, amap, pure, sig, call>>

\* ... and from where fcntl grants that lock: the result of mmc_lock is not
\* looked at, the slot pointers are taken from the handle as it is
IterEnter(p) ==
  /\ pc[p] = "ready"
  /\ it[p].open /\ it[p].at = "lock"
  /\ lockOwner[it[p].p_cur] \in {NoProc, p}
  /\ LET page == it[p].p_cur
         r == mmc_lock(cache[p], file[page], page)
         own == [lockOwner EXCEPT ![page] = p]
         i == [it[p] EXCEPT !.base = r.c.p_base, !.slot_ptr = 0,
                            !.slot_ptr_end = r.c.p_num_slots]
         l == IterLoop(r.c, file, own, i, p)
     IN IterApply(p, [l EXCEPT !.wild = @ \/ r.c.p_base = NoPage,
                               !.it.stray = @ \/ r.c.p_base = NoPage])
  /\ UNCHANGED <<ti, plan, now, left, last, prev, amap, pure, sig, call>>

\* mmc_iterate_close
IterClose(p) ==
  /\ pc[p] = "ready"
  /\ it[p].open /\ it[p].at = "idle"
  /\ LET u == IF it[p].p_cur # NoPage
              THEN IterUnlock(cache[p], file, lockOwner, p)
              ELSE [c |-> cache[p], f |-> file, own |-> lockOwner,
                    unheld |-> FALSE, wild |-> FALSE]
     IN IterApply(p, [c |-> u.c, f |-> u.f, own |-> u.own, wild |-> u.wild,
                      it |-> [it[p] EXCEPT !.open = FALSE,
                                           !.unheld = @ \/ u.unheld]])
  /\ UNCHANGED <<ti, plan, now, left, last, prev, amap, pure, sig, call>>

\* Process 1 has written A, B and C to page 0 and D to page 1 and deleted B,
\* when start_slots lets it lock a page; process 2 has opened the file.  One
\* page may have been damaged since.
IterSlotSettings == {16, 89}

IterDamageKinds == {"none", "magic", "sum"}

\* one call on the handle and the file of s: op is <<"lock", page>>,
\* <<"write", key>>, <<"delete", key>> or <<"unlock">>
Do(s, op) ==
  LET t0 == LastAccessMax - MaxTicks
      page == s.c.p_base
  IN CASE op[1] = "lock" ->
            [c |-> mmc_lock(s.c, s.f[op[2]], op[2]).c, f |-> s.f]
       [] op[1] = "write" ->
            LET w == mmc_write(s.c, s.f[page], mmc_hash(op[2]).hash_slot, op[2],
                               ValSmall, 7, t0)
            IN [c |-> w.c, f |-> [s.f EXCEPT ![page] = w.pg]]
       [] op[1] = "delete" ->
            LET d == mmc_delete(s.c, s.f[page], mmc_hash(op[2]).hash_slot, op[2])
            IN [c |-> d.c, f |-> [s.f EXCEPT ![page] = d.pg]]
       [] OTHER ->
            LET u == mmc_unlock(s.c, s.f[page])
            IN [c |-> u.c, f |-> [s.f EXCEPT ![page] = u.pg]]

\* the calls ops[i], ops[i + 1], ... one after the other
RECURSIVE Run(_, _, _)
Run(s, ops, i) ==
  IF i > Len(ops) THEN s
  ELSE CHOOSE r \in {Run(Do(x, ops[i]), ops, i + 1) : x \in {s}} : TRUE

Written(h) ==
  LET s0 == [c |-> h, f |-> FreshFile(h)]
  IN IF mmc_lock(h, s0.f[0], 0).ret # 0 THEN s0
     ELSE Run(s0, << <<"lock", 0>>, <<"write", KeyA>>, <<"write", KeyB>>,
                     <<"write", KeyC>>, <<"delete", KeyB>>, <<"unlock">>,
                     <<"lock", 1>>, <<"write", KeyD>>, <<"unlock">> >>, 1)

InitIter ==
  \E ss \in IterSlotSettings, kind \in IterDamageKinds, bad \in Pages :
    LET h == mmc_set_param(mmc_new(PageSize, 0, 0, 0), "start_slots", ss)
        w == Written(h)
    IN /\ InitFile([p \in Procs |-> IF p = 1 THEN w.c ELSE h],
                   [pg \in Pages |-> IF pg = bad THEN Damage(w.f[pg], kind)
                                     ELSE w.f[pg]],
                   NoLocks, 0,
                   [k \in Keys |-> IF ss >= MinSlots /\ k \in {KeyA, KeyC}
                                   THEN <<ValSmall, 7>> ELSE Absent])
       /\ pc = [p \in Procs |-> "ready"]
       /\ sig = [p \in Procs |-> NoAlarm]

NextIter ==
  \/ \E p \in Procs : IterNew(p)
  \/ \E p \in Procs : IterNext(p)
  \/ \E p \in Procs : IterEnter(p)
  \/ \E p \in Procs : IterClose(p)

SpecIter == InitIter /\ [][NextIter]_vars

(***************************************************************************)
(* A process that dies with a page locked                                  *)
(***************************************************************************)
\* The process is gone between two of its calls: what it wrote to the mapped
\* page stays, its shadow counters are lost with it, the kernel drops its lock.
Crash(p) ==
  /\ pc[p] = "ready"
  /\ cache[p].p_cur # NoPage
  /\ Dead(p)
  /\ last' = Event(p, "crash", <<>>, NoVal, 0,
                   [c |-> cache[p], ret |-> 0, val |-> NoVal, flags |-> 0])
  /\ prev' = Brief(last)
  /\ UNCHANGED <<file, cache, ti, plan, now, left, amap, pure>>
  /\ UNCHANGED others

MaxCrashOps == 3

\* Both processes have the file open; either may die while it holds a page.
InitCrash ==
  \E ch1 \in {0, 1}, ch2 \in {0, 1} :
    /\ InitFile([p \in Procs |-> mmc_new(PageSize, 0, 0, IF p = 1 THEN ch1 ELSE ch2)],
                FreshFile(mmc_new(PageSize, 0, 0, 0)), NoLocks, MaxCrashOps,
                [k \in Keys |-> Absent])
    /\ pc = [p \in Procs |-> "ready"]
    /\ sig = [p \in Procs |-> NoAlarm]

NextCrash ==
  \/ \E p \in Procs, page \in Pages : Lock(p, page)
  \/ \E p \in Procs : Unlock(p)
  \/ \E p \in Procs, key \in SharedKeys : Write(p, key, <<ValSmall, 7>>)
  \/ \E p \in Procs, key \in SharedKeys : Delete(p, key)
  \/ \E p \in Procs : CalcExpunge(p, 1, 0)
  \/ \E p \in Procs : DoExpunge(p)
  \/ \E p \in Procs : Crash(p)

SpecCrash == InitCrash /\ [][NextCrash]_vars

(***************************************************************************)
(* The fcntl loop of mmc_lock                                              *)
(***************************************************************************)
\* alarm_left as mmc_lock declares it
AlarmSecs == 10

MaxSignals == 1

MaxWaitOps == 1

\* the seconds a caller's own alarm may have left when it calls mmc_lock
PendingAlarms == {0, 3}

\* alarm(secs): the timer is set, what was left of it is returned
alarm(s, secs) == [s |-> [s EXCEPT !.alarm = secs], was |-> s.alarm]

\* old_alarm = alarm(alarm_left), before the loop
LockCall(p, page) ==
  /\ pc[p] = "ready"
  /\ cache[p].p_cur = NoPage
  /\ call[p].at = "idle"
  /\ LET a == alarm(sig[p], AlarmSecs)
     IN /\ sig' = [sig EXCEPT ![p] = a.s]
        /\ call' = [call EXCEPT ![p] = [at |-> "armed", page |-> page,
                                        old_alarm |-> a.was, ret |-> 0,
                                        entry |-> sig[p].alarm, signals |-> 0,
                                        why |-> "none", rearm |-> -1]]
  /\ UNCHANGED <<file, lockOwner, cache, pc, ti, plan, now, left, last, prev, amap,
                 pure, it>>

\* the process enters fcntl(F_SETLKW) and sleeps
EnterFcntl(p) ==
  /\ pc[p] = "ready"
  /\ call[p].at = "armed"
  /\ call' = [call EXCEPT ![p].at = "wait"]
  /\ UNCHANGED <<file, lockOwner, cache, pc, ti, plan, now, left, last, prev, amap,
                 pure, it, sig>>

\* the return of mmc_lock with an error of the fcntl loop: Lock failed,
\* alarm(old_alarm)
LockFailed(p, why) ==
  /\ sig' = [sig EXCEPT ![p] = alarm([@ EXCEPT !.alarm = 0], call[p].old_alarm).s]
  /\ call' = [call EXCEPT ![p].at = "idle", ![p].ret = -1, ![p].why = why,
                          ![p].rearm = call[p].old_alarm]

\* fcntl returns 0: alarm(old_alarm), then the header checks and the return
Granted(p) ==
  /\ pc[p] = "ready"
  /\ call[p].at = "wait"
  /\ lockOwner[call[p].page] \in {NoProc, p}
  /\ lockOwner' = [lockOwner EXCEPT ![call[p].page] = p]
  /\ LET page == call[p].page
         r == mmc_lock(cache[p], file[page], page)
     IN /\ cache' = [cache EXCEPT ![p] = r.c]
        /\ sig' = [sig EXCEPT ![p] = alarm(@, call[p].old_alarm).s]
        /\ call' = [call EXCEPT ![p].at = "idle", ![p].ret = r.ret,
                                ![p].why = IF r.ret = 0 THEN "locked" ELSE "header",
                                ![p].rearm = call[p].old_alarm]
        /\ last' = [EventAt(p, page, "lock", <<>>, NoVal, 0,
                            [c |-> r.c, ret |-> r.ret, val |-> NoVal, flags |-> 0])
                    EXCEPT !.held = TRUE]
        /\ prev' = Brief(last)
  /\ UNCHANGED <<file, pc, ti, plan, now, left, amap, pure, it>>

\* a signal other than SIGALRM, handled by the program, interrupts the sleep:
\* fcntl returns -1 with EINTR, alarm_left = alarm(0), and the loop goes on
\* when alarm_left is not 0
Interrupt(p) ==
  /\ pc[p] = "ready"
  /\ call[p].at = "wait"
  /\ call[p].signals < MaxSignals
  /\ LET alarm_left == alarm(sig[p], 0).was
     IN IF alarm_left # 0
        THEN /\ sig' = [sig EXCEPT ![p] = alarm(alarm(@, 0).s, alarm_left).s]
             /\ call' = [call EXCEPT ![p].at = "armed", ![p].signals = @ + 1]
        ELSE LockFailed(p, "signal")
  /\ UNCHANGED <<file, lockOwner, cache, pc, ti, plan, now, left, last, prev, amap,
                 pure, it>>

\* a second of the call goes by; at 0 the kernel sends SIGALRM.  Without a
\* handler the signal ends the process.  With one, a process asleep in fcntl
\* gets EINTR and alarm(0) returns 0; a process between alarm() and fcntl()
\* just runs its handler.
Second(p) ==
  /\ pc[p] = "ready"
  /\ call[p].at \in {"armed", "wait"}
  /\ sig[p].alarm > 0
  /\ IF sig[p].alarm > 1
     THEN /\ sig' = [sig EXCEPT ![p].alarm = @ - 1]
          /\ UNCHANGED <<call, pc, lockOwner>>
     ELSE IF ~sig[p].handler
     THEN /\ sig' = [sig EXCEPT ![p].alarm = 0]
          /\ call' = [call EXCEPT ![p].at = "killed"]
          /\ Dead(p)
     ELSE IF call[p].at = "wait"
     THEN /\ LockFailed(p, "alarm")
          /\ UNCHANGED <<pc, lockOwner>>
     ELSE /\ sig' = [sig EXCEPT ![p].alarm = 0]
          /\ UNCHANGED <<call, pc, lockOwner>>
  /\ UNCHANGED <<file, cache, ti, plan, now, left, last, prev, amap, pure, it>>

\* Two processes of one program have the file open: with or without a SIGALRM
\* handler, with or without an alarm of their own pending.
InitWait ==
  \E h \in [Procs -> {TRUE}] \cup [Procs -> {FALSE}],
     a \in {[p \in Procs |-> n] : n \in PendingAlarms} :
    /\ InitFile([p \in Procs |-> mmc_new(PageSize, 0, 0, 0)],
                FreshFile(mmc_new(PageSize, 0, 0, 0)), NoLocks, MaxWaitOps,
                [k \in Keys |-> Absent])
    /\ pc = [p \in Procs |-> "ready"]
    /\ sig = [p \in Procs |-> [alarm |-> a[p], handler |-> h[p]]]

NextWait ==
  \/ \E p \in Procs : LockCall(p, 0)
  \/ \E p \in Procs : EnterFcntl(p)
  \/ \E p \in Procs : Granted(p)
  \/ \E p \in Procs : Interrupt(p)
  \/ \E p \in Procs : Second(p)
  \/ \E p \in Procs : Unlock(p)

SpecWait == InitWait /\ [][NextWait]_vars

(***************************************************************************)
(* Properties                                                              *)
(***************************************************************************)
UsedSlots(c, pg) == {i \in 0 .. (c.p_num_slots - 1) : SlotAt(pg, i) > 1}

\* the used slots of a page whose record has this key
SlotsOfKey(c, pg, key) == {i \in UsedSlots(c, pg) : S_Ptr(pg, pg.slots[i]).key = key}

NeedOf(e) == ROUNDLEN(KV_SlotLen(Len(e.key), Len(e.inval)))

\* the counters of a handle
Counters(c) == <<c.p_num_slots, c.p_free_slots, c.p_old_slots, c.p_free_data, c.p_free_bytes>>

\* last and prev are two operations of one process on one page, one right after the other
Consecutive == prev.proc = last.proc /\ prev.page = last.page /\ prev.key = last.key

\* C1: every write to the bytes of a page (by read, write, delete, expunge, the
\* header write-back of mmc_unlock, or the page initialisation of mmc_init's
\* test_file loop) is made by the process that holds the page's lock.
C1_WritesUnderLock == last.op # "none" => last.held

\* C2: with expiry disabled, no expunge and every write stored, a page is a map
\* key -> (value, flags): a read hits exactly when the latest write or delete of
\* the key was a write, and returns what it wrote; a delete returns 1 exactly then.
C2_MapRefinement ==
  /\ (last.op = "read" /\ last.wasPure) =>
       /\ last.ret = 0 <=> amap[last.page][last.key] # Absent
       /\ last.ret = 0 => <<last.val, last.flags>> = amap[last.page][last.key]
  /\ (last.op = "delete" /\ last.wasPure) => (last.ret = 1 <=> last.had)

\* the record a read of the key of the latest operation would find now
FoundNow ==
  LET c == cache[last.proc]
      pg == file[last.page]
      s == _mmc_find_slot(c, pg, mmc_hash(last.key).hash_slot, last.key, 0)
  IN IF s = NullSlot \/ SlotAt(pg, s) <= 1 THEN BadRec ELSE S_Ptr(pg, pg.slots[s])

WriteThenRead ==
  /\ prev.op = "write" /\ prev.ret = 1
  /\ last.op = "read" /\ Consecutive
  /\ last.pre_c.expire_time = 0 \/ last.t <= prev.t + last.pre_c.expire_time

\* C3: a stored write of K, V, flags followed at once by a read of K on the same
\* locked page: the read hits with V and flags, sets the record's last_access to
\* the time of the read, and leaves the counters and the slot table as they were.
C3_WriteThenRead ==
  WriteThenRead =>
    /\ last.ret = 0
    /\ last.val = prev.inval
    /\ last.flags = prev.inflags
    /\ FoundNow.last_access = last.t
    /\ Counters(cache[last.proc]) = Counters(last.pre_c)
    /\ file[last.page].slots = last.pre_pg.slots

C3_Witness == WriteThenRead /\ last.t > prev.t /\ last.ret = 0

\* C4: for every used slot of the locked page, a find in read mode with the
\* slot's key and slot_hash returns that slot, and no two used slots hold the
\* same key.
C4_FindReturnsSlot ==
  LET c == cache[1]
      pg == file[c.p_base]
  IN c.p_cur # NoPage =>
       \A i \in UsedSlots(c, pg) :
         LET rec == S_Ptr(pg, pg.slots[i])
         IN /\ _mmc_find_slot(c, pg, rec.slot_hash, rec.key, 0) = i
            /\ SlotsOfKey(c, pg, rec.key) = {i}

\* the header invariants on five counters
CountersOk(h, num_slots, free_slots, old_slots, free_data, free_bytes) ==
  /\ 0 <= old_slots /\ old_slots <= free_slots /\ free_slots <= num_slots
  /\ free_data + free_bytes = h.c_page_size
  /\ free_data >= P_HEADERSIZE + 4 * num_slots
  /\ free_data <= h.c_page_size
  /\ free_bytes >= 0
  /\ num_slots >= h.start_slots

\* C5: after every completed operation the counters of a locked page (in its
\* handle) and of every page header satisfy 0 <= old_slots <= free_slots <=
\* num_slots, free_data + free_bytes = page_size, 32 + 4 * num_slots <= free_data
\* <= page_size, and num_slots >= start_slots.
C5_Counters ==
  /\ \A p \in Procs :
       cache[p].p_cur # NoPage =>
         CountersOk(cache[p], cache[p].p_num_slots, cache[p].p_free_slots,
                    cache[p].p_old_slots, cache[p].p_free_data, cache[p].p_free_bytes)
  /\ \A pg \in Pages :
       CountersOk(cache[1], file[pg].num_slots, file[pg].free_slots,
                  file[pg].old_slots, file[pg].free_data, file[pg].free_bytes)

C5_Witness ==
  /\ last.op = "do_expunge"
  /\ cache[1].p_num_slots > cache[1].start_slots
  /\ cache[1].p_free_slots < cache[1].p_num_slots

\* C6: the records of distinct used slots of a locked page occupy disjoint byte
\* ranges, each at or after the end of the slot table and ending at or before
\* free_data.
C6_RecordsDisjoint ==
  \A p \in Procs :
    LET c == cache[p]
        pg == file[c.p_base]
        end(i) == pg.slots[i] + RecLen(S_Ptr(pg, pg.slots[i]))
    IN c.p_cur # NoPage =>
         /\ \A i \in UsedSlots(c, pg) :
              /\ pg.slots[i] \in DOMAIN pg.heap
              /\ pg.slots[i] >= P_HEADERSIZE + 4 * c.p_num_slots
              /\ end(i) <= c.p_free_data
         /\ \A i, j \in UsedSlots(c, pg) :
              i # j => end(i) <= pg.slots[j] \/ end(j) <= pg.slots[i]

C6_Witness ==
  /\ last.op = "write" /\ last.ret = 1
  /\ last.pre_c.p_num_slots > last.pre_c.start_slots
  /\ Cardinality(UsedSlots(cache[1], file[0])) > 1

\* the slot find returned in the page as it was before the latest operation
FoundBefore(mode) ==
  _mmc_find_slot(last.pre_c, last.pre_pg, mmc_hash(last.key).hash_slot, last.key, mode)

FailedWrite ==
  last.op = "write" /\ last.ret = 0 /\ NeedOf(last) > last.pre_c.p_free_bytes

TwoWrites ==
  /\ prev.op = "write" /\ prev.ret = 1
  /\ last.op = "write" /\ last.ret = 1
  /\ Consecutive /\ last.inval # prev.inval

\* what the two writes leave, whatever they do to old_slots
Overwritten ==
  /\ FoundNow.val = last.inval /\ FoundNow.flags = last.inflags
  /\ SlotsOfKey(cache[last.proc], file[last.page], last.key)
       = SlotsOfKey(last.pre_c, last.pre_pg, last.key)
  /\ cache[last.proc].p_free_slots = last.pre_c.p_free_slots

\* C8 as stated: two stored writes of K, the second with another value: find
\* reaches one record for K, it holds the second value, free_slots is as after the
\* first write, and old_slots is 1 greater than before the second write.
C8_OverwriteGrowsOldSlots ==
  TwoWrites => Overwritten /\ cache[last.proc].p_old_slots = last.pre_c.p_old_slots + 1

\* C8: two stored writes of K, the second with another value: find reaches one
\* record for K, it holds the second value and flags, the second write adds no
\* used slot for K, free_slots is as after the first write, and old_slots is the
\* same as before the second write (the deleted slot is reused at once).
C8_Overwrite ==
  TwoWrites => Overwritten /\ cache[last.proc].p_old_slots = last.pre_c.p_old_slots

C8_Witness ==
  /\ TwoWrites /\ Overwritten
  /\ cache[last.proc].p_old_slots = 0
  /\ cache[last.proc].p_free_slots = cache[last.proc].start_slots - 1

\* the record a read of the latest operation's key found before the operation
RecBefore ==
  LET s == FoundBefore(0)
  IN IF SlotAt(last.pre_pg, s) > 1 THEN S_Ptr(last.pre_pg, last.pre_pg.slots[s]) ELSE BadRec

ExpiredBefore ==
  RecBefore # BadRec /\ RecBefore.expire_time # 0 /\ last.t > RecBefore.expire_time

\* C9: a read that finds K with non-zero expire_time and now > expire_time
\* misses, makes the slot a deleted slot, adds 1 to free_slots and to old_slots
\* and marks the page dirty; a second read of K then misses too and changes no
\* counter. A record written with expire_seconds = 0 has expire_time 0 and a read
\* never reports it expired.
C9_ExpiredRead ==
  /\ (last.op = "read" /\ ExpiredBefore) =>
       /\ last.ret = -1
       /\ SlotAt(file[last.page], FoundBefore(0)) = 1
       /\ cache[last.proc].p_free_slots = last.pre_c.p_free_slots + 1
       /\ cache[last.proc].p_old_slots = last.pre_c.p_old_slots + 1
       /\ cache[last.proc].p_changed = 1
  /\ (prev.op = "read" /\ prev.expired /\ last.op = "read" /\ Consecutive) =>
       /\ last.ret = -1
       /\ Counters(cache[last.proc]) = Counters(last.pre_c)
  /\ (last.op = "write" /\ last.ret = 1 /\ last.pre_c.expire_time = 0) =>
       FoundNow.expire_time = 0
  /\ (last.op = "read" /\ RecBefore # BadRec /\ RecBefore.expire_time = 0) =>
       last.ret = 0

NoEmptySlot == \A i \in 0 .. (last.pre_c.p_num_slots - 1) : SlotAt(last.pre_pg, i) # 0

AllSlotsUsed == \A i \in 0 .. (last.pre_c.p_num_slots - 1) : SlotAt(last.pre_pg, i) > 1

WriteOfNewKey ==
  last.op = "write" /\ SlotsOfKey(last.pre_c, last.pre_pg, last.key) = {}

UnchangedByLast == file[last.page] = last.pre_pg /\ cache[last.proc] = last.pre_c

\* C10 as stated: when no slot of the page is empty (each is used or deleted) and
\* K is not stored, find in write mode reports the table full, the write returns
\* not-stored and the page is unchanged.
C10_NoEmptySlotIsFull ==
  (WriteOfNewKey /\ NoEmptySlot) =>
    FoundBefore(1) = NullSlot /\ last.ret = 0 /\ UnchangedByLast

\* C10: when every slot of the page is used and K is not stored, find in write
\* mode reports the table full, the write returns not-stored and the page is
\* unchanged; when no slot is empty but some slot is deleted, find in write mode
\* returns a deleted slot and the write stores there if the record fits.
C10_FullTable ==
  (WriteOfNewKey /\ NoEmptySlot) =>
    IF AllSlotsUsed
    THEN FoundBefore(1) = NullSlot /\ last.ret = 0 /\ UnchangedByLast
    ELSE /\ SlotAt(last.pre_pg, FoundBefore(1)) = 1
         /\ last.ret = 1 <=> NeedOf(last) <= last.pre_c.p_free_bytes
         /\ last.ret = 1 => SlotAt(file[last.page], FoundBefore(1)) > 1

C10_Witness == WriteOfNewKey /\ AllSlotsUsed /\ last.ret = 0 /\ UnchangedByLast

ExpungeAll == last.op = "do_expunge" /\ last.inflags = 1

\* C11: mmc_calc_expunge with mode 1 followed by mmc_do_expunge with its result
\* leaves the page with no used slot: free_slots = num_slots, old_slots = 0,
\* free_data = 32 + 4 * num_slots, every read misses and iteration returns no
\* record of the page.
C11_ExpungeAll ==
  ExpungeAll =>
    LET c == cache[last.proc]
        pg == file[last.page]
    IN /\ UsedSlots(c, pg) = {}
       /\ c.p_free_slots = c.p_num_slots
       /\ c.p_old_slots = 0
       /\ c.p_free_data = P_HEADERSIZE + 4 * c.p_num_slots
       /\ c.p_num_slots = last.pre_c.p_num_slots
       /\ \A key \in Keys \cup {FillKey(StartSlots)} :
            mmc_read(c, pg, mmc_hash(key).hash_slot, key, now).ret = -1
       /\ IteratePage(c, pg) = <<>>

C11_Witness ==
  /\ ExpungeAll
  /\ Cardinality(UsedSlots(last.pre_c, last.pre_pg)) > 1
  /\ last.pre_c.p_old_slots > 0

\* the data offsets the pending result of mmc_calc_expunge throws out
Expunged(p) == {plan[p].to_expunge[i] : i \in 1 .. plan[p].num_expunge}

\* a read at time t of the key of the record at off reports it expired
ReadExpires(c, pg, off, t) ==
  LET rec == S_Ptr(pg, off)
  IN mmc_read(c, pg, rec.slot_hash, rec.key, t).ret = -1

\* C12: mmc_calc_expunge with mode 0 lists for expunge exactly the records a
\* read at the same instant would report expired (expire_time non-zero and
\* now > expire_time); every record a read would still return is kept.
C12_SweepMatchesRead ==
  (last.op = "calc_expunge" /\ last.inflags = 0 /\ plan[last.proc] # NoPlan) =>
    LET c == cache[last.proc]
        pg == file[last.page]
    IN Expunged(last.proc)
         = {off \in SeqRange(UsedOffsets(c, pg)) : ReadExpires(c, pg, off, last.t)}

\* the page has more than 30% never-used slots and room for len more bytes
RoomFor(c, len) ==
  /\ 10 * (c.p_free_slots - c.p_old_slots) > 3 * c.p_num_slots
  /\ c.p_free_bytes >= ROUNDLEN(KV_SlotLen(len, 0))

\* a write of a new key right after a mmc_calc_expunge(2, len) that found room
WriteAfterNoOp ==
  /\ prev.op = "calc_expunge" /\ prev.inflags = 2
  /\ last.op = "write" /\ prev.proc = last.proc /\ prev.page = last.page
  /\ RoomFor(last.pre_c, prev.flags)
  /\ Len(last.key) + Len(last.inval) = prev.flags
  /\ SlotsOfKey(last.pre_c, last.pre_pg, last.key) = {}

\* C13: mmc_calc_expunge with mode 2 and len >= 0 returns 0, plans nothing and
\* leaves the page, its counters and num_slots unchanged whenever
\* (free_slots - old_slots) / num_slots > 0.30 and free_bytes >= round_up_4(24 +
\* len); a write of a new key with key + value length len is then stored.
C13_NoOp ==
  /\ (last.op = "calc_expunge" /\ last.inflags = 2 /\ last.flags >= 0
        /\ RoomFor(last.pre_c, last.flags)) =>
       /\ last.ret = 0
       /\ plan[last.proc] = NoPlan
       /\ UnchangedByLast
  /\ WriteAfterNoOp => last.ret = 1

C13_Witness ==
  /\ WriteAfterNoOp /\ last.ret = 1
  /\ UsedSlots(last.pre_c, last.pre_pg) # {}

\* a pending result of mmc_calc_expunge with mode 2
EvictPlanned == last.op = "calc_expunge" /\ last.inflags = 2 /\ plan[last.proc] # NoPlan

\* the records the sweep itself treats as expired
SweptExpired ==
  {off \in SeqRange(UsedOffsets(cache[last.proc], file[last.page])) :
     LET rec == S_Ptr(file[last.page], off)
     IN rec.expire_time # 0 /\ last.t >= rec.expire_time}

Survivors ==
  SubSeq(plan[last.proc].to_expunge, plan[last.proc].num_expunge + 1,
         Len(plan[last.proc].to_expunge))

SurvivorBytes == SumLen(file[last.page], Survivors)

NewHeapSize ==
  cache[last.proc].c_page_size - P_HEADERSIZE - 4 * plan[last.proc].new_num_slots

\* the record evicted last, when a record that is not expired was evicted
LastEvicted == plan[last.proc].to_expunge[plan[last.proc].num_expunge]

EvictedLive == plan[last.proc].num_expunge > Cardinality(SweptExpired)

\* expired records go, and live records go oldest first
EvictsOldest ==
  /\ SweptExpired \subseteq Expunged(last.proc)
  /\ \A e \in Expunged(last.proc) \ SweptExpired : \A k \in SeqRange(Survivors) :
       S_Ptr(file[last.page], e).last_access <= S_Ptr(file[last.page], k).last_access

WriteAfterExpunge ==
  /\ prev.op = "do_expunge" /\ prev.inflags = 2
  /\ last.op = "write" /\ prev.proc = last.proc /\ prev.page = last.page
  /\ Len(last.key) + Len(last.inval) = prev.flags
  /\ NeedOf(last) <= last.pre_c.c_page_size - P_HEADERSIZE - 4 * last.pre_c.start_slots

\* C15 as stated: after mmc_calc_expunge(mode 2, len) and mmc_do_expunge with its
\* result, a write of a record with key + value length len, for any len whose
\* record fits in an empty page, returns stored.
C15_WriteAfterExpungeStored == WriteAfterExpunge => last.ret = 1

\* heap size of the page the write found
HeapBefore == last.pre_c.c_page_size - P_HEADERSIZE - 4 * last.pre_c.p_num_slots

\* C15: after mmc_calc_expunge(mode 2, len) that is not a no-op and
\* mmc_do_expunge with its result, more than heap - floor(0.6 x heap) bytes are
\* free; the write that follows is stored exactly when its rounded record size is
\* at most free_bytes, so it is stored whenever that size is at most
\* heap - floor(0.6 x heap).
C15_RoomAfterExpunge ==
  WriteAfterExpunge =>
    /\ last.pre_c.p_free_bytes > HeapBefore - (6 * HeapBefore) \div 10
    /\ last.ret = 1 <=> NeedOf(last) <= last.pre_c.p_free_bytes
    /\ NeedOf(last) <= HeapBefore - (6 * HeapBefore) \div 10 => last.ret = 1

C15_Witness ==
  /\ WriteAfterExpunge /\ last.ret = 1
  /\ last.inval = ValBig

\* the header invariants of page pg for a handle configured as c
HeaderOk(c, pg) ==
  /\ pg.magic = Magic
  /\ pg.num_slots >= c.start_slots
  /\ pg.free_slots <= pg.num_slots
  /\ pg.old_slots <= pg.free_slots
  /\ pg.free_data + pg.free_bytes = c.c_page_size
  /\ pg.free_data >= P_HEADERSIZE + 4 * pg.num_slots

\* mmc_lock succeeds on a header that satisfies every header invariant
ValidHeaderLocks ==
  last.op = "lock" /\ HeaderOk(last.pre_c, last.pre_pg) => last.ret = 0

\* mmc_lock returns an error on a header that violates one
BadHeaderFails ==
  last.op = "lock" /\ ~HeaderOk(last.pre_c, last.pre_pg) => last.ret # 0

\* after an error of mmc_lock the handle has no current page
LockErrorLeavesNoPage ==
  last.op = "lock" /\ last.ret # 0 => cache[last.proc].p_cur = NoPage

\* C16: mmc_lock returns an error, and makes no page current, whenever the page
\* header violates a header invariant (magic, num_slots >= start_slots,
\* free_slots <= num_slots, old_slots <= free_slots, free_data + free_bytes =
\* page_size, free_data >= 32 + 4 * num_slots); it succeeds on every header that
\* satisfies them all.
C16_LockValidatesHeader ==
  BadHeaderFails /\ LockErrorLeavesNoPage /\ ValidHeaderLocks

\* C17: whenever mmc_lock returns an error the handle is left with no page
\* locked: p_cur is none and the process does not keep the byte-range lock of
\* that page, so another process can acquire the page.
C17_LockErrorReleases ==
  last.op = "lock" /\ last.ret # 0 =>
    /\ cache[last.proc].p_cur = NoPage
    /\ lockOwner[last.page] # last.proc

\* the header a fresh open gives a page, for a handle configured as c
FreshHeader(c, pg) ==
  /\ pg.magic = Magic
  /\ pg.num_slots = c.start_slots /\ pg.free_slots = c.start_slots
  /\ pg.old_slots = 0
  /\ pg.free_data = P_HEADERSIZE + 4 * c.start_slots
  /\ pg.free_bytes = c.c_page_size - pg.free_data

\* every page mmc_init initialises has that header
FreshPagesHaveHeader ==
  /\ last.op = "none" => FreshHeader(cache[1], file[1])
  /\ last.op = "init_page" => FreshHeader(last.pre_c, file[last.page])

\* mmc_lock on a page as a fresh open left it succeeds, and the page has no
\* record for iteration to return
FreshPageLocks ==
  last.op = "lock" /\ last.pre_pg = _mmc_init_page(last.pre_c) =>
    /\ last.ret = 0
    /\ IteratePage(last.pre_c, last.pre_pg) = <<>>

\* C18: for every configuration in the stated ranges, after a fresh open every
\* page has magic set, num_slots = free_slots = start_slots, old_slots = 0,
\* free_data = 32 + 4 * start_slots and free_bytes = page_size - free_data;
\* mmc_lock on every page succeeds and iteration yields nothing.
C18_FreshOpen == FreshPagesHaveHeader /\ FreshPageLocks

\* the test_file loop tests a page right after it has initialised it, and that
\* test passes: the lock succeeds and the page is not initialised a second time
RetestPasses ==
  prev.op = "init_page" /\ last.proc = prev.proc /\ last.page = prev.page =>
    /\ last.op = "lock" => last.ret = 0
    /\ last.op # "init_page"

\* page pg passes mmc_lock's validation and _mmc_test_page for handle c
PagePasses(c, pg, i) ==
  LET l == mmc_lock(c, pg, i)
  IN l.ret = 0 /\ _mmc_test_page(l.c, pg)

\* a process that has returned from mmc_init with test_file = 1 and has not
\* used the handle yet
Returned(p) ==
  /\ cache[p].test_file # 0 /\ pc[p] = "ready"
  /\ cache[p].p_cur = NoPage
  /\ \A pg \in Pages : lockOwner[pg] # p

\* C19: mmc_init with test_file = 1 terminates: the test loop initialises a bad
\* page at most once, the re-test of a page just initialised passes, and on
\* return every page passes the lock validation and the self-check.
C19_TestLoopSettles ==
  /\ RetestPasses
  /\ \A p \in Procs : Returned(p) => \A pg \in Pages : PagePasses(cache[p], file[pg], pg)

\* the page invariants: those of the header, the slot counts, and for every used
\* slot an aligned offset inside the heap, a key that probes back to the slot,
\* and a record that ends at or below free_data and overlaps no other
PageInvariant(c, pg) ==
  /\ HeaderOk(c, pg)
  /\ LET h == mmc_lock(c, pg, 0).c
         n == pg.num_slots
         used == UsedSlots(h, pg)
         End(i) == pg.slots[i] + RecLen(S_Ptr(pg, pg.slots[i]))
     IN /\ Cardinality({i \in 0 .. (n - 1) : SlotAt(pg, i) <= 1}) = pg.free_slots
        /\ Cardinality({i \in 0 .. (n - 1) : SlotAt(pg, i) = 1}) = pg.old_slots
        /\ \A i \in used :
             LET off == pg.slots[i]
                 rec == S_Ptr(pg, off)
             IN /\ off >= P_HEADERSIZE + 4 * n /\ off < c.c_page_size /\ off % 4 = 0
                /\ mmc_hash(rec.key).hash_slot = rec.slot_hash
                /\ _mmc_find_slot(h, pg, rec.slot_hash, rec.key, 0) = i
                /\ End(i) <= pg.free_data
        /\ \A i, j \in used : i # j => End(i) <= pg.slots[j] \/ End(j) <= pg.slots[i]

\* C20: opening an existing file with test_file = 1 re-initialises exactly the
\* pages that violate a page invariant: a re-initialised page is empty
\* afterwards, and a page that satisfied every page invariant, whatever the
\* write times of its records, is not re-initialised and keeps its records.
C20_TestKeepsValidPages ==
  last.op = "init_page" =>
    /\ ~PageInvariant(last.pre_c, last.pre_pg)
    /\ file[last.page] = _mmc_init_page(last.pre_c)

\* the number of slots of pg, among the first n, that hold 0 or 1 / that hold 1
CountFree(pg, n) == Cardinality({i \in 0 .. (n - 1) : SlotAt(pg, i) <= 1})

CountOld(pg, n) == Cardinality({i \in 0 .. (n - 1) : SlotAt(pg, i) = 1})

\* the counters of the handle of a locked page agree with the slot table
ShadowCountsAgree ==
  \A p \in Procs :
    LET c == cache[p] IN
    c.p_cur # NoPage =>
      /\ c.p_free_slots = CountFree(file[c.p_base], c.p_num_slots)
      /\ c.p_old_slots = CountOld(file[c.p_base], c.p_num_slots)

\* the counters mmc_unlock left in the header agree with the slot table
HeaderCountsAgree ==
  last.op = "unlock" =>
    LET pg == file[last.page] IN
    /\ pg.free_slots = CountFree(pg, pg.num_slots)
    /\ pg.old_slots = CountOld(pg, pg.num_slots)

\* C25: after every completed operation on a locked page the shadow counters
\* agree with the slot table: free_slots is the number of slots holding 0 or 1,
\* old_slots the number holding 1; after mmc_unlock the same holds for the
\* counters stored in the page header.
C25_CountsMatchSlots == ShadowCountsAgree /\ HeaderCountsAgree

\* mmc_calc_expunge has just returned a result that is not "nothing to do"
Planned == last.op = "calc_expunge" /\ plan[last.proc] # NoPlan

\* the keep-candidates of that call: the used records the sweep does not treat
\* as expired, none in mode 1
KeepCandidates ==
  LET keep(off) == last.inflags # 1 /\ off \notin SweptExpired
  IN SelectSeq(UsedOffsets(cache[last.proc], file[last.page]), keep)

\* the heap has room for the enlarged slot table beside the keep-candidates
RoomToDouble ==
  LET c == cache[last.proc]
  IN c.c_page_size - P_HEADERSIZE - 4 * c.p_num_slots - SumLen(file[last.page], KeepCandidates)
       > 4 * (c.p_num_slots + 1)

Doubles ==
  /\ 10 * Len(KeepCandidates) > 3 * cache[last.proc].p_num_slots
  /\ last.inflags = 2 \/ RoomToDouble

\* C26: mmc_calc_expunge returns new_num_slots = 2 * num_slots + 1 exactly when
\* the keep-candidates number more than 30% of num_slots and either mode = 2 or
\* the free heap after keeping them exceeds 4 * (num_slots + 1) bytes, otherwise
\* new_num_slots = num_slots; in every case 32 + 4 * new_num_slots plus the
\* survivors' total rounded size is at most page_size, and mmc_do_expunge
\* leaves no record beyond the end of the page.
C26_SlotDoubling ==
  /\ Planned =>
       /\ plan[last.proc].new_num_slots =
            IF Doubles THEN 2 * cache[last.proc].p_num_slots + 1
            ELSE cache[last.proc].p_num_slots
       /\ P_HEADERSIZE + 4 * plan[last.proc].new_num_slots + SurvivorBytes
            <= cache[last.proc].c_page_size
  /\ last.op = "do_expunge" =>
       LET c == cache[last.proc]
           pg == file[last.page]
       IN /\ c.p_free_data <= c.c_page_size
          /\ \A i \in UsedSlots(c, pg) :
               pg.slots[i] + RecLen(S_Ptr(pg, pg.slots[i])) <= c.c_page_size

\* mode 2 has enlarged the slot table of a page without room for it, and the
\* result has been applied
C26_Witness ==
  /\ last.op = "do_expunge" /\ last.inflags = 2
  /\ cache[last.proc].p_num_slots = 2 * last.pre_c.p_num_slots + 1
  /\ last.pre_c.p_free_bytes <= 4 * (last.pre_c.p_num_slots + 1)
  /\ UsedSlots(cache[last.proc], file[last.page]) # {}

\* the probe loop of mmc_do_expunge ends for the result just returned
ProbeEnds ==
  ~mmc_do_expunge(cache[last.proc], file[last.page], plan[last.proc]).hang

\* C27 as stated: for every page state and every mode the result of
\* mmc_calc_expunge has new_num_slots strictly greater than the number of
\* surviving records, so the probe of the scratch slot table in mmc_do_expunge
\* finds an empty slot and ends, and free_slots after the expunge is at least 1.
C27_MoreSlotsThanSurvivors ==
  /\ Planned => plan[last.proc].new_num_slots > Len(Survivors) /\ ProbeEnds
  /\ last.op = "do_expunge" => cache[last.proc].p_free_slots >= 1

\* C27: the result of mmc_calc_expunge has new_num_slots at least the number of
\* surviving records, equal to it only in mode 0 on a page whose slots are all
\* used by records that are not expired and that has no room for a larger
\* table; the probe of the scratch slot table always ends; free_slots after the
\* expunge is new_num_slots less the survivors, at least 1 in modes 1 and 2 and
\* possibly 0 in mode 0.
C27_SlotsForSurvivors ==
  /\ Planned =>
       /\ plan[last.proc].new_num_slots >= Len(Survivors)
       /\ ProbeEnds
       /\ plan[last.proc].new_num_slots = Len(Survivors) =>
            /\ last.inflags = 0
            /\ Len(Survivors) = cache[last.proc].p_num_slots
            /\ ~RoomToDouble
  /\ last.op = "do_expunge" =>
       LET c == cache[last.proc]
       IN /\ c.p_free_slots = c.p_num_slots - Cardinality(UsedSlots(c, file[last.page]))
          /\ c.p_free_slots >= 0
          /\ last.inflags # 0 => c.p_free_slots >= 1

\* a mode 0 expunge has left a page with every slot used
C27_Witness ==
  /\ last.op = "do_expunge" /\ last.inflags = 0
  /\ cache[last.proc].p_free_slots = 0
  /\ Cardinality(UsedSlots(cache[last.proc], file[last.page])) = cache[last.proc].p_num_slots

\* the records mmc_do_expunge was told to keep and to drop, by their old offsets
Kept ==
  SubSeq(last.applied.to_expunge, last.applied.num_expunge + 1, Len(last.applied.to_expunge))

Dropped == SubSeq(last.applied.to_expunge, 1, last.applied.num_expunge)

\* the record that was at off is found under its key, unchanged, and a read
\* at the time of the sweep returns its value and flags
StillFound(off) ==
  LET c == cache[last.proc]
      pg == file[last.page]
      rec == S_Ptr(last.pre_pg, off)
      s == _mmc_find_slot(c, pg, rec.slot_hash, rec.key, 0)
      r == mmc_read(c, pg, rec.slot_hash, rec.key, prev.t)
  IN /\ s # NullSlot /\ SlotAt(pg, s) > 1
     /\ S_Ptr(pg, pg.slots[s]) = rec
     /\ r.ret = 0 /\ r.val = rec.val /\ r.flags = rec.flags

NotFound(off) ==
  LET rec == S_Ptr(last.pre_pg, off)
  IN mmc_read(cache[last.proc], file[last.page], rec.slot_hash, rec.key, prev.t).ret = -1

\* the counters mmc_do_expunge leaves
CountersAfterExpunge ==
  LET c == cache[last.proc]
      n == last.applied.new_num_slots
  IN /\ c.p_num_slots = n
     /\ c.p_old_slots = 0
     /\ c.p_free_slots = n - Len(Kept)
     /\ c.p_free_data = P_HEADERSIZE + 4 * n + SumLen(last.pre_pg, Kept)
     /\ c.p_free_bytes = c.c_page_size - c.p_free_data
     /\ c.p_changed = 1

\* C28: mmc_do_expunge keeps exactly the records that are not in the expunge
\* list: afterwards each survivor is found by a read of its key with the same
\* value, flags, last_access, expire_time and slot_hash as before, no expunged
\* record is found, old_slots = 0, free_slots = num_slots' - survivors,
\* free_data = 32 + 4 * num_slots' + the survivors' total rounded size, and the
\* page is marked dirty.
C28_ExpungeKeepsSurvivors ==
  last.op = "do_expunge" /\ prev.op = "calc_expunge" =>
    /\ \A i \in 1 .. Len(Kept) : StillFound(Kept[i])
    /\ \A i \in 1 .. Len(Dropped) : NotFound(Dropped[i])
    /\ CountersAfterExpunge

\* a successful mmc_lock leaves the five counters of the header in the handle
LockLoadsCounters ==
  last.op = "lock" /\ last.ret = 0 =>
    Counters(cache[last.proc]) =
      <<last.pre_pg.num_slots, last.pre_pg.free_slots, last.pre_pg.old_slots,
        last.pre_pg.free_data, last.pre_pg.free_bytes>>

\* ... and the page-dirty flag cleared
LockClearsDirty ==
  last.op = "lock" /\ last.ret = 0 => cache[last.proc].p_changed = 0

\* mmc_unlock right after the mmc_lock of the page, no operation in between,
\* writes no header (it writes one exactly when p_changed is set)
CleanUnlockWritesNothing ==
  /\ last.op = "unlock" /\ prev.op = "lock" /\ prev.ret = 0
  /\ prev.proc = last.proc /\ prev.page = last.page
  => last.pre_c.p_changed = 0

\* C29: a successful mmc_lock loads the five shadow counters from the page
\* header and clears the page-dirty flag, so that mmc_unlock writes the counters
\* back only if an operation since that lock changed the page; across lock and
\* unlock pairs with no such operation in between, unlock writes no header.
C29_LockClearsDirty ==
  LockLoadsCounters /\ LockClearsDirty /\ CleanUnlockWritesNothing


\* the used slots of a page of the file, in slot order, each with its page
PageScan(page) ==
  LET pg == file[page]
  IN SelectSeq([n \in 1 .. pg.num_slots |-> <<page, n - 1>>],
               LAMBDA e : SlotAt(pg, e[2]) > 1)

RECURSIVE ScanFrom(_)
ScanFrom(page) ==
  IF page >= NumPages THEN <<>> ELSE PageScan(page) \o ScanFrom(page + 1)

IsPrefix(a, b) == Len(a) <= Len(b) /\ SubSeq(b, 1, Len(a)) = a

\* no other process has made an iterator
ScansAlone(p) == \A q \in Procs \ {p} : it[q] = NoIt

\* C21: scanning alone, an iterator has at every moment returned the first
\* used slots of the file, taken page after page and slot after slot, each
\* once and no empty or deleted one; when it says 'no more' it has returned
\* them all, and the process is still running.
C21_IterateReturnsEachSlotOnce ==
  \A p \in Procs :
    ScansAlone(p) /\ it[p] # NoIt =>
      /\ pc[p] = "ready"
      /\ IsPrefix(it[p].seen, ScanFrom(0))
      /\ it[p].done => it[p].seen = ScanFrom(0)

\* the pages whose fcntl lock a process holds
HeldBy(p) == {pg \in Pages : lockOwner[pg] = p}

\* C22: a process holds no page lock without an open iterator, after 'no
\* more' and while the iterator waits for the next page; between two calls
\* it holds the lock of the page it reads and no other; mmc_unlock is never
\* called for a page that is not locked.
C22_IteratorHoldsOneLock ==
  \A p \in Procs :
    /\ Cardinality(HeldBy(p)) <= 1
    /\ ~it[p].unheld
    /\ (~it[p].open \/ it[p].done \/ it[p].at = "lock") => HeldBy(p) = {}
    /\ (it[p].open /\ ~it[p].done /\ it[p].at = "idle" /\ it[p].p_cur # NoPage) =>
          /\ HeldBy(p) = {it[p].p_cur}
          /\ it[p].base = it[p].p_cur
          /\ cache[p].p_cur = it[p].p_cur

\* C24: when a process died holding a page and another process then locks
\* that page successfully, the page it finds has all the page invariants.
C24_LockAfterCrashFindsValidPage ==
  (prev.op = "crash" /\ last.op = "lock" /\ last.page = prev.page /\ last.ret = 0) =>
    PageInvariant(last.pre_c, last.pre_pg)

\* a SIGALRM sent during mmc_lock does not end the process
AlarmDoesNotKill == \A p \in Procs : call[p].at # "killed"

\* a process asleep in fcntl has its alarm pending
SleepsUnderAlarm == \A p \in Procs : call[p].at = "wait" => sig[p].alarm > 0

\* a signal that is not the alarm does not make the call fail
SignalDoesNotFail == \A p \in Procs : call[p].why # "signal"

\* a call that has returned has set the alarm to what the caller had pending
AlarmRearmed == \A p \in Procs : call[p].rearm # -1 => call[p].rearm = call[p].entry

\* C23: a call of mmc_lock cannot be kept from returning: the alarm that
\* bounds its sleep is pending whenever it sleeps and does not end the
\* process when it goes off; a signal other than the alarm never makes the
\* call fail; on return the caller's alarm is pending again.
C23_LockCallReturns ==
  /\ AlarmDoesNotKill
  /\ SleepsUnderAlarm
  /\ SignalDoesNotFail
  /\ AlarmRearmed
====
